---- MODULE Spec2Model ----
(***************************************************************************)
(* Region error reporting of librustc/infer/error_reporting.rs:            *)
(* report_region_errors runs process_errors (the grouper) over the list of *)
(* RegionResolutionError records of the solver and then dispatches the     *)
(* resulting list, one record at a time, to the renderers.                 *)
(***************************************************************************)
EXTENDS Integers, Sequences, FiniteSets, TLC

\* Longest list of errors the solver hands over.
MaxErrors == 3

-----------------------------------------------------------------------------
(* Data model: ty::Region, SubregionOrigin, RegionResolutionError           *)

ReFree(scope, bound_region) ==
    [tag |-> "ReFree", scope |-> scope, bound_region |-> bound_region]

ReScope(scope) == [tag |-> "ReScope", scope |-> scope, bound_region |-> "-"]

ReStatic == [tag |-> "ReStatic", scope |-> 0, bound_region |-> "-"]

ConcreteFailure(origin, sub, sup) ==
    [tag |-> "ConcreteFailure", origin |-> origin, sub |-> sub, sup |-> sup]

SubSupConflict(var_origin, sub_origin, sub, sup_origin, sup) ==
    [tag |-> "SubSupConflict", var_origin |-> var_origin,
     sub_origin |-> sub_origin, sub |-> sub,
     sup_origin |-> sup_origin, sup |-> sup]

GenericBoundFailure(origin, kind, region) ==
    [tag |-> "GenericBoundFailure", origin |-> origin, kind |-> kind,
     region |-> region]

ProcessedErrors(origins, same_regions) ==
    [tag |-> "ProcessedErrors", origins |-> origins,
     same_regions |-> same_regions]

\* ProcessedErrorOrigin::VariableFailure / ProcessedErrorOrigin::ConcreteFailure
VariableFailure(var_origin) ==
    [tag |-> "VariableFailure", var_origin |-> var_origin]

ConcreteFailureOrigin(origin, sub, sup) ==
    [tag |-> "ConcreteFailure", origin |-> origin, sub |-> sub, sup |-> sup]

\* struct SameRegions { scope_id, regions }
SameRegions(scope_id, regions) == [scope_id |-> scope_id, regions |-> regions]

\* SameRegions::contains : membership of a bound region in sr.regions
SameRegions_contains(sr, br) ==
    \E k \in 1..Len(sr.regions) : sr.regions[k] = br

\* SameRegions::push : append a bound region to sr.regions
SameRegions_push(sr, br) ==
    [sr EXCEPT !.regions = Append(sr.regions, br)]

None == [tag |-> "None"]

\* A SubregionOrigin other than Subtype: the variant (its span is the span
\* of the variant, its payload is printed as '{}')
Origin(variant) == [variant |-> variant]

\* SubregionOrigin::Subtype(trace), trace = TypeTrace { cause, values }
Subtype(trace) == [variant |-> "Subtype", trace |-> trace]

Reborrow == Origin("Reborrow")

CompareImplMethodObligation == Origin("CompareImplMethodObligation")

\* A type as the type printer and the unifier see it: its printed form, its
\* sort ("primitive", "adt", "fn", "error") and, for an adt, its DefId
Ty(name, sort, did) == [name |-> name, sort |-> sort, did |-> did]

\* DefId { krate, index }; the item path of the index stands for the index
DefId(krate, path) == [krate |-> krate, path |-> path]

LOCAL_CRATE == 0

NoDefId == DefId(LOCAL_CRATE, "")

\* TypeError::Sorts(ExpectedFound { expected, found })
Sorts(expected, found) ==
    [tag |-> "Sorts", expected |-> expected, found |-> found]

\* TypeError::Traits(ExpectedFound { expected, found }) over DefIds
Traits(expected, found) ==
    [tag |-> "Traits", expected |-> expected, found |-> found]

\* TypeError::RegionsDoesNotOutlive(a, b)
RegionsDoesNotOutlive(a, b) ==
    [tag |-> "RegionsDoesNotOutlive", a |-> a, b |-> b]

\* ValuePairs::Types(ExpectedFound { expected, found })
Types(expected, found) == [expected |-> expected, found |-> found]

\* TypeTrace { cause: ObligationCause { span, code }, values }
TypeTrace(code, values) == [cause |-> [code |-> code], values |-> values]

Some(v) == [tag |-> "Some", value |-> v]

-----------------------------------------------------------------------------
(* The read-only program index: code extents, their nodes, the parents.     *)

\* Code extents that free regions of the inputs are bound on.
CodeExtents == {1, 2, 3, 4}

\* CodeExtent::node_id(&tcx.region_maps): extents 1 and 2 are two extents of
\* the same function body.
node_id(scope) ==
    CASE scope = 1 -> 10
      [] scope = 2 -> 10
      [] scope = 3 -> 20
      [] scope = 5 -> 50
      [] scope = 6 -> 60
      [] scope = 7 -> 70
      [] scope = 8 -> 80
      [] scope = 9 -> 90
      [] OTHER     -> 30

\* tcx.hir.find(tcx.hir.get_parent(scope_id)): the kind of the parent node.
parent_node(scope_id) ==
    CASE scope_id = 10 -> "ItemFn"
      [] scope_id = 20 -> "NodeImplItem"
      [] OTHER         -> "NodeExpr"

-----------------------------------------------------------------------------
(* Inputs: the records the solver may produce.                              *)

\* Types of the traces: two primitives, and a type that still refers to an
\* earlier error
TyI32 == Ty("i32", "primitive", NoDefId)

TyU32 == Ty("u32", "primitive", NoDefId)

TyErr == Ty("[type error]", "error", NoDefId)

\* A trace whose values resolve
ResolvedTrace == TypeTrace("Misc", Types(TyI32, TyU32))

\* A trace whose found type refers to an earlier error (a derived error)
DerivedTrace == TypeTrace("Misc", Types(TyI32, TyErr))

RegionPairs ==
    { <<ReFree(1, "a"), ReFree(1, "b")>>,
      <<ReFree(1, "b"), ReFree(1, "c")>>,
      <<ReFree(1, "b"), ReFree(1, "a")>>,
      <<ReFree(1, "c"), ReFree(1, "b")>>,
      <<ReFree(2, "c"), ReFree(2, "a")>>,
      <<ReFree(3, "a"), ReFree(3, "b")>>,
      <<ReFree(4, "a"), ReFree(4, "b")>>,
      <<ReFree(1, "a"), ReFree(3, "b")>>,
      <<ReStatic, ReFree(1, "a")>> }

SubSupPairs ==
    { <<ReFree(1, "a"), ReFree(1, "b")>>,
      <<ReFree(3, "b"), ReFree(3, "a")>>,
      <<ReScope(1), ReFree(1, "a")>> }

InputErrors ==
    { ConcreteFailure(Reborrow, p[1], p[2]) : p \in RegionPairs }
    \cup { ConcreteFailure(CompareImplMethodObligation,
                           ReFree(1, "a"), ReFree(1, "b")) }
    \cup { ConcreteFailure(Subtype(DerivedTrace),
                           ReFree(1, "a"), ReFree(1, "b")) }
    \cup { SubSupConflict("MiscVariable", Reborrow, p[1],
                          Reborrow, p[2]) : p \in SubSupPairs }
    \cup { SubSupConflict("MiscVariable", CompareImplMethodObligation,
                          ReFree(1, "a"), Reborrow, ReFree(1, "b")),
           SubSupConflict("MiscVariable", Reborrow,
                          ReFree(1, "a"), CompareImplMethodObligation,
                          ReFree(1, "b")) }
    \cup { GenericBoundFailure(Reborrow, "Param", ReStatic),
           GenericBoundFailure(CompareImplMethodObligation, "Param",
                               ReFree(1, "a")) }
    \cup { ProcessedErrors(<<VariableFailure("MiscVariable")>>,
                           <<SameRegions(10, <<"a", "b">>)>>) }

ErrorLists == UNION { [1..n -> InputErrors] : n \in 0..MaxErrors }

\* The inputs of the renderers: every SubregionOrigin variant that
\* report_concrete_failure renders itself, scopes the program index resolves
\* and scopes it does not, and every kind of record.
MaxRenderErrors == 2

ReEmpty == [tag |-> "ReEmpty", scope |-> 0, bound_region |-> ""]

OriginVariants ==
    { "Reborrow", "ReborrowUpvar", "InfStackClosure", "InvokeClosure",
      "DerefPointer", "FreeVariable", "IndexSlice", "RelateObjectBound",
      "RelateParamBound", "RelateRegionParamBound",
      "RelateDefaultParamBound", "CallRcvr", "CallArg", "CallReturn",
      "Operand", "AddrOf", "AutoBorrow", "ExprTypeIsNotInScope",
      "SafeDestructor", "BindingTypeIsNotValidAtDecl", "ParameterInScope",
      "DataBorrowed", "ReferenceOutlivesReferent" }

\* (sub, sup) pairs of scopes: resolved, decorated, without span, with a node
\* of an unexpected kind, with no node
ScopePairs ==
    { <<ReScope(3), ReScope(2)>>,
      <<ReScope(1), ReScope(7)>>,
      <<ReScope(4), ReScope(5)>>,
      <<ReScope(5), ReScope(6)>>,
      <<ReScope(6), ReScope(9)>>,
      <<ReScope(9), ReScope(3)>> }

RenderErrors ==
    { ConcreteFailure(Origin(v), ReScope(3), ReScope(2)) :
        v \in OriginVariants }
    \cup { ConcreteFailure(Reborrow, p[1], p[2]) : p \in ScopePairs }
    \cup { ConcreteFailure(Subtype(ResolvedTrace), ReScope(3), ReScope(2)),
           ConcreteFailure(Subtype(TypeTrace("IfExpressionWithNoElse",
                                             Types(TyI32, TyU32))),
                           ReScope(3), ReScope(2)),
           ConcreteFailure(Subtype(TypeTrace("MainFunctionType",
                                             Types(TyI32, TyU32))),
                           ReScope(3), ReScope(2)),
           ConcreteFailure(Subtype(DerivedTrace), ReFree(1, "a"),
                           ReFree(1, "b")),
           ConcreteFailure(Subtype(DerivedTrace), ReScope(3), ReScope(2)),
           ConcreteFailure(Origin("CallArg"), ReFree(1, "b"),
                           ReFree(1, "a")),
           ConcreteFailure(Origin("AddrOf"), ReFree(8, "BrAnon(0)"),
                           ReFree(6, "BrFresh")),
           ConcreteFailure(Origin("AddrOf"), ReFree(9, "a"), ReEmpty),
           ConcreteFailure(CompareImplMethodObligation, ReScope(3),
                           ReScope(2)) }
    \cup { SubSupConflict("MiscVariable", Reborrow, ReScope(3),
                          Origin("CallArg"), ReScope(2)),
           SubSupConflict("PatternRegion", Subtype(ResolvedTrace),
                          ReScope(5), Origin("AddrOf"), ReStatic),
           SubSupConflict("UpvarRegion", Origin("FreeVariable"),
                          ReFree(1, "a"), Subtype(DerivedTrace),
                          ReFree(1, "b")) }
    \cup { GenericBoundFailure(Reborrow, "Param", ReFree(1, "a")),
           GenericBoundFailure(Origin("RelateParamBound"), "Projection",
                               ReStatic),
           GenericBoundFailure(Origin("RelateParamBound"), "Param",
                               ReScope(3)),
           GenericBoundFailure(Origin("CallArg"), "Param",
                               ReFree(8, "BrAnon(0)")),
           GenericBoundFailure(Origin("CallArg"), "Projection",
                               ReFree(1, "BrFresh")),
           GenericBoundFailure(Reborrow, "Param", ReScope(5)),
           GenericBoundFailure(CompareImplMethodObligation, "Param",
                               ReFree(1, "a")),
           GenericBoundFailure(CompareImplMethodObligation, "Param",
                               ReStatic),
           GenericBoundFailure(CompareImplMethodObligation, "Projection",
                               ReScope(3)) }
    \cup { ProcessedErrors(<<VariableFailure("MiscVariable")>>,
                           <<SameRegions(10, <<"a", "b">>)>>) }

RenderErrorLists ==
    UNION { [1..n -> RenderErrors] : n \in 0..MaxRenderErrors }

\* The inputs of the type-mismatch renderer. Crate 0 is the local crate;
\* MaxCrate bounds the crate numbers of the external ones.
MaxCrate == 2

Crates == 0..MaxCrate

ItemPaths == {"foo::Bar", "foo::Baz"}

DefIds == { DefId(k, path) : k \in Crates, path \in ItemPaths }

\* the nominal type of a definition prints as the path of the definition
TyAdt(did) == Ty(did.path, "adt", did)

\* function types, one of them with an error type inside
TyFnU32 == Ty("fn(u32) -> u8", "fn", NoDefId)

TyFnErr == Ty("fn(i32) -> [type error]", "fn", NoDefId)

\* TypeError::IntMismatch
IntMismatch == [tag |-> "IntMismatch"]

TypeErrors ==
    { Sorts(TyI32, TyU32), Sorts(TyI32, TyI32), Sorts(TyI32, TyFnU32),
      IntMismatch }
    \cup { Sorts(TyAdt(d1), TyAdt(d2)) : d1 \in DefIds, d2 \in DefIds }
    \cup { Sorts(TyAdt(d), TyI32) : d \in DefIds }
    \cup { Traits(d1, d2) : d1 \in DefIds, d2 \in DefIds }

\* the values of a call: those of the type error when it has two types, or
\* the types of an enclosing relation, resolved or with an error type inside
ValuesOf(terr) ==
    { None, Some(Types(TyFnErr, TyFnU32)), Some(Types(TyFnU32, TyFnU32)) }
    \cup IF terr.tag = "Sorts"
         THEN { Some(Types(terr.expected, terr.found)) }
         ELSE { Some(Types(TyI32, TyU32)) }

CauseCodes == {"Misc", "MatchExpressionArm", "MatchExpressionArm:IfLetDesugar",
               "IfExpressionWithNoElse"}

SecondarySpans ==
    { None, Some([span |-> "secondary.span", msg |-> "secondary label"]) }

\* a call of note_type_err by a caller that built the diagnostic, or a call
\* of report_and_explain_type_error
NoteTypeErrCalls(terr) ==
    { [entry |-> "note_type_err", cause |-> [code |-> "Misc"],
       secondary_span |-> sp, values |-> v, terr |-> terr] :
         sp \in SecondarySpans, v \in ValuesOf(terr) }

ReportAndExplainCalls(terr) ==
    { [entry |-> "report_and_explain_type_error",
       cause |-> [code |-> code], secondary_span |-> None,
       values |-> v, terr |-> terr] :
         code \in CauseCodes, v \in ValuesOf(terr) \ {None} }

TypeErrCalls ==
    UNION { NoteTypeErrCalls(terr) \cup ReportAndExplainCalls(terr) :
                terr \in TypeErrors }

-----------------------------------------------------------------------------
(* process_errors: helpers                                                  *)

\* 'if let SubregionOrigin::CompareImplMethodObligation { .. } = *origin'
IsCompareImplMethodObligation(origin) ==
    origin.variant = "CompareImplMethodObligation"

\* Variant: only the first arm of the match is present.
SubSupExcluded_first_arm_only(sub_origin, sup_origin) ==
    IsCompareImplMethodObligation(sub_origin)

\* match (sub_origin, sup_origin): the two arms that skip the grouping
SubSupExcluded(sub_origin, sup_origin) ==
    \/ IsCompareImplMethodObligation(sub_origin)
    \/ IsCompareImplMethodObligation(sup_origin)

\* Variant: the kind of the parent node is not looked at.
free_regions_from_same_fn_any_parent(sub, sup) ==
    IF sub.tag = "ReFree" /\ sup.tag = "ReFree" /\ sub.scope = sup.scope
    THEN Some([sub_fr |-> sub, sup_fr |-> sup,
               scope_id |-> node_id(sub.scope)])
    ELSE None

\* Variant: the two scopes are not compared.
free_regions_from_same_fn_any_scope(sub, sup) ==
    IF /\ sub.tag = "ReFree"
       /\ sup.tag = "ReFree"
       /\ parent_node(node_id(sub.scope))
                \in {"ItemFn", "NodeImplItem", "NodeTraitItem"}
    THEN Some([sub_fr |-> sub, sup_fr |-> sup,
               scope_id |-> node_id(sub.scope)])
    ELSE None

free_regions_from_same_fn(sub, sup) ==
    IF sub.tag = "ReFree" /\ sup.tag = "ReFree"
    THEN IF sub.scope # sup.scope
         THEN None
         ELSE LET scope_id == node_id(sub.scope)
              IN  IF parent_node(scope_id)
                        \in {"ItemFn", "NodeImplItem", "NodeTraitItem"}
                  THEN Some([sub_fr |-> sub, sup_fr |-> sup,
                             scope_id |-> scope_id])
                  ELSE None
    ELSE None

\* Variant: a cluster is extended when it contains the sub-side region.
append_to_same_regions_sub_side(same_regions, same_frs) ==
    LET scope_id == same_frs.scope_id
        sub_fr   == same_frs.sub_fr
        sup_fr   == same_frs.sup_fr
        hits     == { k \in 1..Len(same_regions) :
                        /\ SameRegions_contains(same_regions[k],
                                                sub_fr.bound_region)
                        /\ scope_id = same_regions[k].scope_id }
    IN  IF hits # {}
        THEN LET k == CHOOSE h \in hits : \A g \in hits : h <= g
             IN  [same_regions EXCEPT
                    ![k] = SameRegions_push(same_regions[k],
                                            sup_fr.bound_region)]
        ELSE Append(same_regions,
                    SameRegions(scope_id, <<sub_fr.bound_region,
                                            sup_fr.bound_region>>))

\* Variant: a cluster that already holds the sub-side region is left as it is.
append_to_same_regions_dedup(same_regions, same_frs) ==
    LET hits == { k \in 1..Len(same_regions) :
                    /\ SameRegions_contains(same_regions[k],
                                            same_frs.sup_fr.bound_region)
                    /\ same_frs.scope_id = same_regions[k].scope_id }
    IN  IF hits # {}
        THEN LET k == CHOOSE h \in hits : \A g \in hits : h <= g
             IN  IF SameRegions_contains(same_regions[k],
                                         same_frs.sub_fr.bound_region)
                 THEN same_regions
                 ELSE [same_regions EXCEPT
                        ![k] = SameRegions_push(same_regions[k],
                                        same_frs.sub_fr.bound_region)]
        ELSE Append(same_regions,
                    SameRegions(same_frs.scope_id,
                                <<same_frs.sub_fr.bound_region,
                                  same_frs.sup_fr.bound_region>>))

\* Variant: a cluster is extended when it contains either side of the pair.
append_to_same_regions_either_side(same_regions, same_frs) ==
    LET sub_br == same_frs.sub_fr.bound_region
        sup_br == same_frs.sup_fr.bound_region
        hits   == { k \in 1..Len(same_regions) :
                        /\ \/ SameRegions_contains(same_regions[k], sup_br)
                           \/ SameRegions_contains(same_regions[k], sub_br)
                        /\ same_frs.scope_id = same_regions[k].scope_id }
    IN  IF hits # {}
        THEN LET k == CHOOSE h \in hits : \A g \in hits : h <= g
             IN  [same_regions EXCEPT
                    ![k] = SameRegions_push(same_regions[k],
                            IF SameRegions_contains(same_regions[k], sup_br)
                            THEN sub_br ELSE sup_br)]
        ELSE Append(same_regions,
                    SameRegions(same_frs.scope_id, <<sub_br, sup_br>>))

\* Variant: the last cluster that matches is extended, not the first.
append_to_same_regions_last_hit(same_regions, same_frs) ==
    LET hits == { k \in 1..Len(same_regions) :
                    /\ SameRegions_contains(same_regions[k],
                                            same_frs.sup_fr.bound_region)
                    /\ same_frs.scope_id = same_regions[k].scope_id }
    IN  IF hits # {}
        THEN LET k == CHOOSE h \in hits : \A g \in hits : h >= g
             IN  [same_regions EXCEPT
                    ![k] = SameRegions_push(same_regions[k],
                                            same_frs.sub_fr.bound_region)]
        ELSE Append(same_regions,
                    SameRegions(same_frs.scope_id,
                                <<same_frs.sub_fr.bound_region,
                                  same_frs.sup_fr.bound_region>>))

append_to_same_regions(same_regions, same_frs) ==
    LET scope_id == same_frs.scope_id
        sub_fr   == same_frs.sub_fr
        sup_fr   == same_frs.sup_fr
        hits     == { k \in 1..Len(same_regions) :
                        /\ SameRegions_contains(same_regions[k],
                                                sup_fr.bound_region)
                        /\ scope_id = same_regions[k].scope_id }
    IN  IF hits # {}
        THEN LET k == CHOOSE h \in hits : \A g \in hits : h <= g
             IN  [same_regions EXCEPT
                    ![k] = SameRegions_push(same_regions[k],
                                            sub_fr.bound_region)]
        ELSE Append(same_regions,
                    SameRegions(scope_id, <<sub_fr.bound_region,
                                            sup_fr.bound_region>>))

\* Variant: each cluster is compared with its predecessor's successor,
\* that is with itself.
from_common_scope_self(same_regions) ==
    \A k \in 1..Len(same_regions) :
        same_regions[k].scope_id = same_regions[k].scope_id

\* Variant: only the last cluster is compared with the first.
from_common_scope_last(same_regions) ==
    same_regions[Len(same_regions)].scope_id = same_regions[1].scope_id

\* the loop 'for sr in &same_regions { if sr.scope_id != common_scope_id ...'
from_common_scope(same_regions) ==
    LET common_scope_id == same_regions[1].scope_id
    IN  \A k \in 1..Len(same_regions) :
            same_regions[k].scope_id = common_scope_id

\* Variant: the bound failures are pushed in reverse.
RECURSIVE rebuild_bound_failures_reversed(_)
rebuild_bound_failures_reversed(bfs) ==
    IF bfs = <<>> THEN <<>>
    ELSE rebuild_bound_failures_reversed(Tail(bfs))
         \o <<GenericBoundFailure(Head(bfs)[1], Head(bfs)[2], Head(bfs)[3])>>

\* 'for (origin, kind, region) in bound_failures { push(GenericBoundFailure) }'
RECURSIVE rebuild_bound_failures(_)
rebuild_bound_failures(bfs) ==
    IF bfs = <<>> THEN <<>>
    ELSE <<GenericBoundFailure(Head(bfs)[1], Head(bfs)[2], Head(bfs)[3])>>
         \o rebuild_bound_failures(Tail(bfs))

\* Variant: the bound failures are never put back.
with_bound_failures_never(processed, bfs) == processed

\* Variant: the bound failures are always put back.
with_bound_failures_always(processed, bfs) ==
    processed \o rebuild_bound_failures(bfs)

\* 'if processed_errors.is_empty() { ... bound_failures ... }'
with_bound_failures(processed, bfs) ==
    IF processed = <<>> THEN processed \o rebuild_bound_failures(bfs)
    ELSE processed

\* Variant: the other errors are put before the ProcessedErrors.
extend_in_front(processed, others) == others \o processed

\* Variant: the other errors are put only when nothing was grouped.
extend_if_empty(processed, others) ==
    IF processed = <<>> THEN others ELSE processed

\* 'processed_errors.extend(other_errors)'
extend(processed, others) == processed \o others

\* The part of process_errors after the loop; "Panic" is a failed assert!.
assemble(errs, origs, same_regs, others, bfs) ==
    IF same_regs # <<>> /\ ~from_common_scope(same_regs)
    THEN None
    ELSE IF same_regs # <<>> /\ Len(origs) = 0
    THEN [tag |-> "Panic"]
    ELSE LET grouped == IF same_regs # <<>>
                        THEN <<ProcessedErrors(origs, same_regs)>>
                        ELSE <<>>
             processed == with_bound_failures(extend(grouped, others), bfs)
         IN  IF Len(errs) > 0 /\ Len(processed) = 0
             THEN [tag |-> "Panic"]
             ELSE Some(processed)

\* Variant: without a grouping nothing is left to report.
unwrap_or_default(processed, errs) ==
    IF processed.tag = "Some" THEN processed.value ELSE <<>>

\* Variant: without a grouping the bound failures are left out as well.
unwrap_or_suppressed(processed, errs) ==
    LET kept(e) == e.tag # "GenericBoundFailure"
    IN  IF processed.tag = "Some" THEN processed.value
        ELSE SelectSeq(errs, kept)

\* 'processed_errors.as_ref().unwrap_or(errors)'
unwrap_or(processed, errs) ==
    IF processed.tag = "Some" THEN processed.value ELSE errs

-----------------------------------------------------------------------------
(* State                                                                     *)

VARIABLES
    errors,            \* the argument of report_region_errors
    pc,                \* "process_errors", "report", "done", "bug", "panic"
    idx,               \* position of the loop of process_errors
    origins,           \* Vec<ProcessedErrorOrigin>
    same_regions,      \* Vec<SameRegions>
    other_errors,      \* errors left unchanged
    bound_failures,    \* (origin, kind, region) of the GenericBoundFailures
    result,            \* return value of process_errors, "Pending" before
    report_errors,     \* the list report_region_errors iterates
    ridx,              \* position of the loop of report_region_errors
    dispatched,        \* records the match of report_region_errors has seen
    emitted,           \* diagnostics emitted so far
    cancelled,         \* diagnostics built and cancelled so far
    type_err_call,     \* the arguments of a call of note_type_err
    type_err_diag      \* the diagnostic that call works on

vars == <<errors, pc, idx, origins, same_regions, other_errors,
          bound_failures, result, report_errors, ridx, dispatched, emitted,
          cancelled, type_err_call, type_err_diag>>

grouper_vars == <<origins, same_regions, other_errors, bound_failures>>

type_err_vars == <<type_err_call, type_err_diag>>

report_vars == <<result, report_errors, ridx, dispatched, emitted, cancelled,
                 type_err_vars>>

\* no call of note_type_err is under way
NoCall == [tag |-> "NoCall"]

Pending == [tag |-> "Pending"]

Init ==
    /\ errors \in ErrorLists
    /\ pc = "process_errors"
    /\ idx = 1
    /\ origins = <<>>
    /\ same_regions = <<>>
    /\ other_errors = <<>>
    /\ bound_failures = <<>>
    /\ result = Pending
    /\ report_errors = <<>>
    /\ ridx = 1
    /\ dispatched = <<>>
    /\ emitted = <<>>
    /\ cancelled = <<>>
    /\ type_err_call = NoCall
    /\ type_err_diag = None

\* report_region_errors is entered with a list of the renderers' inputs
RenderInit ==
    /\ errors \in RenderErrorLists
    /\ pc = "process_errors"
    /\ idx = 1
    /\ origins = <<>>
    /\ same_regions = <<>>
    /\ other_errors = <<>>
    /\ bound_failures = <<>>
    /\ result = Pending
    /\ report_errors = <<>>
    /\ ridx = 1
    /\ dispatched = <<>>
    /\ emitted = <<>>
    /\ cancelled = <<>>
    /\ type_err_call = NoCall
    /\ type_err_diag = None

InLoop(tag) ==
    /\ pc = "process_errors"
    /\ idx <= Len(errors)
    /\ errors[idx].tag = tag

\* One iteration of the loop on a ConcreteFailure.
ProcessConcreteFailure ==
    /\ InLoop("ConcreteFailure")
    /\ LET error    == errors[idx]
           same_frs == free_regions_from_same_fn(error.sub, error.sup)
       IN  IF ~IsCompareImplMethodObligation(error.origin)
              /\ same_frs.tag = "Some"
           THEN /\ origins' = Append(origins,
                        ConcreteFailureOrigin(error.origin, error.sub,
                                              error.sup))
                /\ same_regions' =
                        append_to_same_regions(same_regions, same_frs.value)
                /\ UNCHANGED other_errors
           ELSE /\ other_errors' = Append(other_errors, error)
                /\ UNCHANGED <<origins, same_regions>>
    /\ idx' = idx + 1
    /\ UNCHANGED <<errors, pc, bound_failures, report_vars>>

\* One iteration of the loop on a SubSupConflict.
ProcessSubSupConflict ==
    /\ InLoop("SubSupConflict")
    /\ LET error    == errors[idx]
           same_frs == free_regions_from_same_fn(error.sub, error.sup)
       IN  IF ~SubSupExcluded(error.sub_origin, error.sup_origin)
              /\ same_frs.tag = "Some"
           THEN /\ origins' = Append(origins,
                                     VariableFailure(error.var_origin))
                /\ same_regions' =
                        append_to_same_regions(same_regions, same_frs.value)
                /\ UNCHANGED other_errors
           ELSE /\ other_errors' = Append(other_errors, error)
                /\ UNCHANGED <<origins, same_regions>>
    /\ idx' = idx + 1
    /\ UNCHANGED <<errors, pc, bound_failures, report_vars>>

\* One iteration of the loop on a GenericBoundFailure.
ProcessGenericBoundFailure ==
    /\ InLoop("GenericBoundFailure")
    /\ bound_failures' = Append(bound_failures,
            <<errors[idx].origin, errors[idx].kind, errors[idx].region>>)
    /\ idx' = idx + 1
    /\ UNCHANGED <<errors, pc, origins, same_regions, other_errors,
                   report_vars>>

\* Variant: a ProcessedErrors of the input is kept like any other error.
ProcessProcessedErrors_kept ==
    /\ InLoop("ProcessedErrors")
    /\ other_errors' = Append(other_errors, errors[idx])
    /\ idx' = idx + 1
    /\ UNCHANGED <<errors, pc, origins, same_regions, bound_failures,
                   report_vars>>

\* The loop meets a ProcessedErrors: bug!(...) halts the compiler.
ProcessProcessedErrors ==
    /\ InLoop("ProcessedErrors")
    /\ pc' = "bug"
    /\ UNCHANGED <<errors, idx, grouper_vars, report_vars>>

\* The loop is over: process_errors assembles its result and returns to
\* report_region_errors, which picks the list to iterate.
ProcessErrorsReturn ==
    /\ pc = "process_errors"
    /\ idx = Len(errors) + 1
    /\ LET r == assemble(errors, origins, same_regions, other_errors,
                         bound_failures)
       IN  IF r.tag = "Panic"
           THEN /\ pc' = "panic"
                /\ UNCHANGED <<result, report_errors>>
           ELSE /\ pc' = "report"
                /\ result' = r
                /\ report_errors' = unwrap_or(r, errors)
    /\ UNCHANGED <<errors, idx, grouper_vars, ridx, dispatched, emitted,
                   cancelled, type_err_vars>>

-----------------------------------------------------------------------------
(* report_region_errors: the dispatch loop                                  *)

\* --- the diagnostic sink: DiagnosticBuilder --------------------------------

\* struct_span_err!(sess, span, code, msg)
struct_span_err(span, code, msg) ==
    [code |-> code, span |-> span, msg |-> msg, children |-> <<>>,
     cancelled |-> FALSE]

Child(kind, span, msg) == [kind |-> kind, span |-> span, msg |-> msg]

NoSpan == "NoSpan"

\* DiagnosticBuilder::note
note(err, msg) ==
    [err EXCEPT !.children = Append(@, Child("note", NoSpan, msg))]

\* DiagnosticBuilder::span_note
span_note(err, span, msg) ==
    [err EXCEPT !.children = Append(@, Child("note", span, msg))]

\* DiagnosticBuilder::help
help(err, msg) ==
    [err EXCEPT !.children = Append(@, Child("help", NoSpan, msg))]

\* DiagnosticBuilder::span_label
span_label(err, span, msg) ==
    [err EXCEPT !.children = Append(@, Child("label", span, msg))]

\* DiagnosticBuilder::note_expected_found(_extra): the expected/found line
note_expected_found(err, expected, found, expected_extra, found_extra) ==
    [err EXCEPT !.children = Append(@, Child("expected_found", NoSpan,
        "expected type '" \o expected \o "'" \o expected_extra
        \o " found type '" \o found \o "'" \o found_extra))]

\* Handler::cancel
cancel(err) == [err EXCEPT !.cancelled = TRUE]

\* --- the program index as the scope explainer reads it ----------------------

\* CodeExtent::span(&region_maps, &hir): extent 5 has no span
scope_span(scope) ==
    IF scope = 5 THEN NoSpan ELSE "scope" \o ToString(scope)

\* hir.span(node)
hir_span(node) == "node" \o ToString(node)

\* hir.find(node): the kind of the node, "None" when there is none
hir_find(node) ==
    CASE node = 10 -> "ExprOther"
      [] node = 20 -> "NodeBlock"
      [] node = 30 -> "ExprCall"
      [] node = 60 -> "NodeLocal"
      [] node = 70 -> "NodeStmt"
      [] node = 80 -> "ItemFn"
      [] OTHER     -> "None"

\* region_maps.code_extent_data(scope)
code_extent_data(scope) ==
    CASE scope = 1 -> "CallSiteScope"
      [] scope = 2 -> "ParameterScope"
      [] scope = 4 -> "DestructionScope"
      [] scope = 7 -> "Remainder"
      [] OTHER     -> "Misc"

\* --- note_and_explain_region -------------------------------------------------

\* item_scope_tag, trait_item_scope_tag, impl_item_scope_tag
item_scope_tag(kind) ==
    CASE kind = "ItemImpl"        -> "impl"
      [] kind = "ItemStruct"      -> "struct"
      [] kind = "ItemUnion"       -> "union"
      [] kind = "ItemEnum"        -> "enum"
      [] kind = "ItemTrait"       -> "trait"
      [] kind = "ItemFn"          -> "function body"
      [] kind = "ItemOther"       -> "item"
      [] kind = "TraitItemMethod" -> "method body"
      [] kind = "ImplItemMethod"  -> "method body"
      [] OTHER                    -> "associated item"

ItemKinds ==
    {"ItemImpl", "ItemStruct", "ItemUnion", "ItemEnum", "ItemTrait",
     "ItemFn", "ItemOther", "TraitItemMethod", "TraitItemOther",
     "ImplItemMethod", "ImplItemOther"}

\* Variant: a node of any other kind, or no node, is taken for an expression.
scope_tag_lenient(kind) ==
    CASE kind = "NodeBlock"         -> "block"
      [] kind = "ExprCall"          -> "call"
      [] kind = "ExprMethodCall"    -> "method call"
      [] kind = "ExprMatchIfLet"    -> "if let"
      [] kind = "ExprMatchWhileLet" -> "while let"
      [] kind = "ExprMatchForLoop"  -> "for"
      [] kind = "ExprMatch"         -> "match"
      [] kind = "NodeStmt"          -> "statement"
      [] kind \in ItemKinds         -> item_scope_tag(kind)
      [] OTHER                      -> "expression"

\* the 'tag' of a ReScope; "" stands for the arm 'Some(_) | None'
scope_tag(kind) ==
    CASE kind = "NodeBlock"         -> "block"
      [] kind = "ExprCall"          -> "call"
      [] kind = "ExprMethodCall"    -> "method call"
      [] kind = "ExprMatchIfLet"    -> "if let"
      [] kind = "ExprMatchWhileLet" -> "while let"
      [] kind = "ExprMatchForLoop"  -> "for"
      [] kind = "ExprMatch"         -> "match"
      [] kind = "ExprOther"         -> "expression"
      [] kind = "NodeStmt"          -> "statement"
      [] kind \in ItemKinds         -> item_scope_tag(kind)
      [] OTHER                      -> ""

\* the 'tag' of a ReFree
free_tag(kind, node, scope) ==
    CASE kind \in {"NodeBlock", "ExprCall", "ExprMethodCall",
                   "ExprMatchIfLet", "ExprMatchWhileLet",
                   "ExprMatchForLoop", "ExprMatch", "ExprOther"} -> "body"
      [] kind \in ItemKinds -> item_scope_tag(kind)
      [] kind = "None" -> "unknown node for scope " \o ToString(scope)
                          \o ".  Please report a bug."
      [] OTHER -> "unexpected node (" \o ToString(node) \o ") for scope "
                  \o ToString(scope) \o ".  Please report a bug."

scope_decorated_tag(scope, tag) ==
    CASE code_extent_data(scope) = "Misc" -> tag
      [] code_extent_data(scope) = "CallSiteScope" ->
            "scope of call-site for function"
      [] code_extent_data(scope) = "ParameterScope" ->
            "scope of function body"
      [] code_extent_data(scope) = "DestructionScope" ->
            "destruction scope surrounding " \o tag
      [] OTHER -> "block suffix following statement 0"

\* explain_span: the span stands for its line:col as well
explain_span(heading, span) ==
    [description |-> "the " \o heading \o " at " \o span, span |-> span]

unknown_scope(prefix, scope, suffix) ==
    prefix \o "unknown scope: " \o ToString(scope) \o suffix
    \o ".  Please report a bug."

\* the prefix of a ReFree by its bound region: BrAnon(0), BrFresh, BrNamed
bound_region_prefix(br) ==
    CASE br = "BrAnon(0)" -> "the anonymous lifetime #1 defined on"
      [] br = "BrFresh"   -> "an anonymous lifetime defined on"
      [] OTHER            -> "the lifetime " \o br \o " as defined on"

\* the (description, span) of a region that is not a ReScope
describe_region(region) ==
    CASE region.tag = "ReFree" ->
            LET node == node_id(region.scope)
                tag  == free_tag(hir_find(node), node, region.scope)
                es   == explain_span(tag, hir_span(node))
            IN  [description |-> bound_region_prefix(region.bound_region)
                                 \o " " \o es.description,
                 span |-> es.span]
      [] region.tag = "ReStatic" ->
            [description |-> "the static lifetime", span |-> NoSpan]
      [] region.tag = "ReEmpty" ->
            [description |-> "the empty lifetime", span |-> NoSpan]
      [] OTHER ->
            [description |-> "lifetime " \o region.tag, span |-> NoSpan]

\* Variant: a scope without a span is passed over in silence.
note_and_explain_region_silent(err, prefix, region, suffix) ==
    IF region.tag = "ReScope"
    THEN IF scope_span(region.scope) = NoSpan
         THEN err
         ELSE span_note(err, scope_span(region.scope),
                prefix
                \o explain_span(
                        scope_decorated_tag(region.scope,
                            scope_tag(hir_find(node_id(region.scope)))),
                        scope_span(region.scope)).description
                \o suffix)
    ELSE note(err, prefix \o describe_region(region).description \o suffix)

note_and_explain_region(err, prefix, region, suffix) ==
    IF region.tag = "ReScope"
    THEN LET scope == region.scope
             span  == scope_span(scope)
             tag   == scope_tag(hir_find(node_id(scope)))
         IN  IF span = NoSpan
             THEN note(err, unknown_scope(prefix, scope, suffix))
             ELSE IF tag = ""
             THEN span_note(err, span, unknown_scope(prefix, scope, suffix))
             ELSE span_note(err, span,
                    prefix
                    \o explain_span(scope_decorated_tag(scope, tag),
                                    span).description
                    \o suffix)
    ELSE LET d == describe_region(region)
         IN  IF d.span # NoSpan
             THEN span_note(err, d.span, prefix \o d.description \o suffix)
             ELSE note(err, prefix \o d.description \o suffix)

\* --- the type-mismatch renderer --------------------------------------------

\* ObligationCause::as_failure_str
as_failure_str(code) ==
    CASE code = "CompareImplMethodObligation" ->
            "method not compatible with trait"
      [] code = "MatchExpressionArm:IfLetDesugar" ->
            "'if let' arms have incompatible types"
      [] code = "MatchExpressionArm" -> "match arms have incompatible types"
      [] code = "IfExpression" -> "if and else have incompatible types"
      [] code = "IfExpressionWithNoElse" -> "if may be missing an else clause"
      [] code = "EquatePredicate" -> "equality predicate not satisfied"
      [] code = "MainFunctionType" -> "main function has wrong type"
      [] code = "StartFunctionType" -> "start function has wrong type"
      [] code = "IntrinsicType" -> "intrinsic has wrong type"
      [] code = "MethodReceiver" -> "mismatched method receiver"
      [] OTHER -> "mismatched types"

\* ObligationCause::as_requirement_str
as_requirement_str(code) ==
    CASE code = "CompareImplMethodObligation" ->
            "method type is compatible with trait"
      [] code = "ExprAssignable" -> "expression is assignable"
      [] code = "MatchExpressionArm:IfLetDesugar" ->
            "'if let' arms have compatible types"
      [] code = "MatchExpressionArm" -> "match arms have compatible types"
      [] code = "IfExpression" -> "if and else have compatible types"
      [] code = "IfExpressionWithNoElse" -> "if missing an else returns ()"
      [] code = "EquatePredicate" -> "equality where clause is satisfied"
      [] code = "MainFunctionType" -> "'main' function has the correct type"
      [] code = "StartFunctionType" ->
            "'start' function has the correct type"
      [] code = "IntrinsicType" -> "intrinsic has the correct type"
      [] code = "MethodReceiver" -> "method receiver has the correct type"
      [] OTHER -> "types are compatible"

\* msg begins with prefix
StartsWith(msg, prefix) ==
    /\ Len(msg) >= Len(prefix)
    /\ SubSeq(msg, 1, Len(prefix)) = prefix

\* text occurs in msg
Mentions(msg, text) ==
    \E k \in 1..(Len(msg) - Len(text) + 1) :
        SubSeq(msg, k, k + Len(text) - 1) = text

\* TypeFoldable::references_error, after resolve_type_vars_if_possible: the
\* error type occurs in one of the two types
references_error(exp_found) ==
    \/ Mentions(exp_found.expected.name, TyErr.name)
    \/ Mentions(exp_found.found.name, TyErr.name)

\* values_str / expected_found_str
values_str(values) ==
    IF references_error(values)
    THEN None
    ELSE Some([expected |-> values.expected.name,
               found |-> values.found.name])

\* TyS::is_primitive
is_primitive(ty) == ty.sort = "primitive"

\* DefId::is_local
is_local(did) == did.krate = LOCAL_CRATE

\* Variant: the test on local definitions is left out.
report_path_match_any_crate(err, did1, did2, sp) ==
    IF did1.krate # did2.krate /\ did1.path = did2.path
    THEN span_note(err, sp,
            "Perhaps two different versions of crate 'crate"
            \o ToString(did1.krate) \o "' are being used?")
    ELSE err

\* the closure report_path_match of check_and_note_conflicting_crates
report_path_match(err, did1, did2, sp) ==
    IF ~(is_local(did1) \/ is_local(did2)) /\ did1.krate # did2.krate
    THEN IF did1.path = did2.path
         THEN span_note(err, sp,
                "Perhaps two different versions of crate 'crate"
                \o ToString(did1.krate) \o "' are being used?")
         ELSE err
    ELSE err

check_and_note_conflicting_crates(err, terr, sp) ==
    CASE terr.tag = "Sorts" ->
            IF terr.expected.sort = "adt" /\ terr.found.sort = "adt"
            THEN report_path_match(err, terr.expected.did, terr.found.did, sp)
            ELSE err
      [] terr.tag = "Traits" ->
            report_path_match(err, terr.expected, terr.found, sp)
      [] OTHER -> err

note_error_origin(err, cause) ==
    CASE cause.code = "MatchExpressionArm:IfLetDesugar" ->
            span_note(err, "arm_span",
                      "'if let' arm with an incompatible type")
      [] cause.code = "MatchExpressionArm" ->
            span_note(err, "arm_span", "match arm with an incompatible type")
      [] OTHER -> err

\* TyCtxt::note_and_explain_type_err: adds nothing for the errors modelled
note_and_explain_type_err(err, terr, sp) == err

\* Variant: the expected/found line is written for simple errors too.
note_expected_found_line_always(diag, expected_found, terr) ==
    IF expected_found.tag = "Some"
    THEN note_expected_found(diag, expected_found.value.expected,
                             expected_found.value.found, "", "")
    ELSE diag

\* the part of note_type_err that writes the expected/found line
note_expected_found_line(diag, expected_found, terr) ==
    IF expected_found.tag = "Some"
    THEN LET expected == expected_found.value.expected
             found    == expected_found.value.found
             is_simple_error ==
                IF terr.tag = "Sorts"
                THEN is_primitive(terr.expected) /\ is_primitive(terr.found)
                ELSE FALSE
         IN  IF ~is_simple_error
             THEN IF expected = found /\ terr.tag = "Sorts"
                  THEN note_expected_found(diag, expected, found,
                            " (" \o terr.expected.sort \o ")",
                            " (" \o terr.found.sort \o ")")
                  ELSE note_expected_found(diag, expected, found, "", "")
             ELSE diag
    ELSE diag

\* the part of note_type_err after the values are resolved
note_type_err_labels(diag, cause, secondary_span, expected_found, terr) ==
    LET d1 == note_expected_found_line(diag, expected_found, terr)
        d2 == span_label(d1, "cause.span", terr.tag)
        d3 == IF secondary_span.tag = "Some"
              THEN span_label(d2, secondary_span.value.span,
                              secondary_span.value.msg)
              ELSE d2
        d4 == note_error_origin(d3, cause)
        d5 == check_and_note_conflicting_crates(d4, terr, "cause.span")
    IN  note_and_explain_type_err(d5, terr, "cause.span")

\* Variant: values that do not resolve are treated as values not given.
note_type_err_no_cancel(diag, cause, secondary_span, values, terr) ==
    note_type_err_labels(diag, cause, secondary_span,
        IF values.tag = "None" THEN None ELSE values_str(values.value),
        terr)

\* note_type_err(diag, cause, secondary_span, values, terr)
note_type_err(diag, cause, secondary_span, values, terr) ==
    LET expected_found ==
            IF values.tag = "None" THEN None ELSE values_str(values.value)
    IN  IF values.tag = "Some" /\ expected_found.tag = "None"
        THEN cancel(diag)
        ELSE note_type_err_labels(diag, cause, secondary_span,
                                  expected_found, terr)

report_and_explain_type_error(trace, terr) ==
    LET failure_str == as_failure_str(trace.cause.code)
        diag == CASE trace.cause.code = "IfExpressionWithNoElse" ->
                        struct_span_err("cause.span", "E0317", failure_str)
                  [] trace.cause.code = "MainFunctionType" ->
                        struct_span_err("cause.span", "E0580", failure_str)
                  [] OTHER ->
                        struct_span_err("cause.span", "E0308", failure_str)
    IN  note_type_err(diag, trace.cause, None, Some(trace.values), terr)

\* --- the renderers of the region errors -------------------------------------
\* Messages are the source's text with ' where the source writes a backtick;
\* '{}' stands for a formatted payload (a variable or type name).

\* SubregionOrigin::span
origin_span(origin) == origin.variant \o ".span"

\* report_extra_impl_obligation(span, ...): the diagnostic it returns
report_extra_impl_obligation(span, requirement) ==
    struct_span_err(span, "extra_impl_obligation",
        "impl has stricter requirements than trait: " \o requirement)

report_concrete_failure(origin, sub, sup) ==
    CASE origin.variant = "Subtype" ->
            report_and_explain_type_error(origin.trace,
                                          RegionsDoesNotOutlive(sup, sub))
      [] origin.variant = "Reborrow" ->
            note_and_explain_region(
            note_and_explain_region(
              struct_span_err(origin_span(origin), "E0312",
                    "lifetime of reference outlives lifetime of borrowed "
                    \o "content..."),
                "...the reference is valid for ",
                sub, "..."),
              "...but the borrowed content is only valid for ",
              sup, "")
      [] origin.variant = "ReborrowUpvar" ->
            note_and_explain_region(
            note_and_explain_region(
              struct_span_err(origin_span(origin), "E0313",
                    "lifetime of borrowed pointer outlives lifetime of "
                    \o "captured variable '{}'..."),
                "...the borrowed pointer is valid for ",
                sub, "..."),
              "...but '{}' is only valid for ",
              sup, "")
      [] origin.variant = "InfStackClosure" ->
            note_and_explain_region(
            note_and_explain_region(
              struct_span_err(origin_span(origin), "E0314",
                    "closure outlives stack frame"),
                "...the closure must be valid for ",
                sub, "..."),
              "...but the closure's stack frame is only valid for ",
              sup, "")
      [] origin.variant = "InvokeClosure" ->
            note_and_explain_region(
            struct_span_err(origin_span(origin), "E0315",
                  "cannot invoke closure outside of its lifetime"),
              "the closure is only valid for ",
              sup, "")
      [] origin.variant = "DerefPointer" ->
            note_and_explain_region(
            struct_span_err(origin_span(origin), "E0473",
                  "dereference of reference outside its lifetime"),
              "the reference is only valid for ",
              sup, "")
      [] origin.variant = "FreeVariable" ->
            note_and_explain_region(
            note_and_explain_region(
              struct_span_err(origin_span(origin), "E0474",
                    "captured variable '{}' does not outlive the "
                    \o "enclosing closure"),
                "captured variable is valid for ",
                sup, ""),
              "closure is valid for ",
              sub, "")
      [] origin.variant = "IndexSlice" ->
            note_and_explain_region(
            struct_span_err(origin_span(origin), "E0475",
                  "index of slice outside its lifetime"),
              "the slice is only valid for ",
              sup, "")
      [] origin.variant = "RelateObjectBound" ->
            note_and_explain_region(
            note_and_explain_region(
              struct_span_err(origin_span(origin), "E0476",
                    "lifetime of the source pointer does not outlive "
                    \o "lifetime bound of the object type"),
                "object type is valid for ",
                sub, ""),
              "source pointer is only valid for ",
              sup, "")
      [] origin.variant = "RelateParamBound" ->
            note_and_explain_region(
            struct_span_err(origin_span(origin), "E0477",
                  "the type '{}' does not fulfill the required lifetime"),
              "type must outlive ",
              sub, "")
      [] origin.variant = "RelateRegionParamBound" ->
            note_and_explain_region(
            note_and_explain_region(
              struct_span_err(origin_span(origin), "E0478",
                    "lifetime bound not satisfied"),
                "lifetime parameter instantiated with ",
                sup, ""),
              "but lifetime parameter must outlive ",
              sub, "")
      [] origin.variant = "RelateDefaultParamBound" ->
            note_and_explain_region(
            struct_span_err(origin_span(origin), "E0479",
                  "the type '{}' (provided as the value of a type "
                  \o "parameter) is not valid at this point"),
              "type must outlive ",
              sub, "")
      [] origin.variant = "CallRcvr" ->
            note_and_explain_region(
            struct_span_err(origin_span(origin), "E0480",
                  "lifetime of method receiver does not outlive the "
                  \o "method call"),
              "the receiver is only valid for ",
              sup, "")
      [] origin.variant = "CallArg" ->
            note_and_explain_region(
            struct_span_err(origin_span(origin), "E0481",
                  "lifetime of function argument does not outlive the "
                  \o "function call"),
              "the function argument is only valid for ",
              sup, "")
      [] origin.variant = "CallReturn" ->
            note_and_explain_region(
            struct_span_err(origin_span(origin), "E0482",
                  "lifetime of return value does not outlive the "
                  \o "function call"),
              "the return value is only valid for ",
              sup, "")
      [] origin.variant = "Operand" ->
            note_and_explain_region(
            struct_span_err(origin_span(origin), "E0483",
                  "lifetime of operand does not outlive the operation"),
              "the operand is only valid for ",
              sup, "")
      [] origin.variant = "AddrOf" ->
            note_and_explain_region(
            struct_span_err(origin_span(origin), "E0484",
                  "reference is not valid at the time of borrow"),
              "the borrow is only valid for ",
              sup, "")
      [] origin.variant = "AutoBorrow" ->
            note_and_explain_region(
            struct_span_err(origin_span(origin), "E0485",
                  "automatically reference is not valid at the time of "
                  \o "borrow"),
              "the automatic borrow is only valid for ",
              sup, "")
      [] origin.variant = "ExprTypeIsNotInScope" ->
            note_and_explain_region(
            struct_span_err(origin_span(origin), "E0486",
                  "type of expression contains references that are not "
                  \o "valid during the expression: '{}'"),
              "type is only valid for ",
              sup, "")
      [] origin.variant = "SafeDestructor" ->
            note_and_explain_region(
            note_and_explain_region(
              struct_span_err(origin_span(origin), "E0487",
                    "unsafe use of destructor: destructor might be "
                    \o "called while references are dead"),
                "superregion: ",
                sup, ""),
              "subregion: ",
              sub, "")
      [] origin.variant = "BindingTypeIsNotValidAtDecl" ->
            note_and_explain_region(
            struct_span_err(origin_span(origin), "E0488",
                  "lifetime of variable does not enclose its "
                  \o "declaration"),
              "the variable is only valid for ",
              sup, "")
      [] origin.variant = "ParameterInScope" ->
            note_and_explain_region(
            struct_span_err(origin_span(origin), "E0489",
                  "type/lifetime parameter not in scope here"),
              "the parameter is only valid for ",
              sub, "")
      [] origin.variant = "DataBorrowed" ->
            note_and_explain_region(
            note_and_explain_region(
              struct_span_err(origin_span(origin), "E0490",
                    "a value of type '{}' is borrowed for too long"),
                "the type is valid for ",
                sub, ""),
              "but the borrow lasts for ",
              sup, "")
      [] origin.variant = "ReferenceOutlivesReferent" ->
            note_and_explain_region(
            note_and_explain_region(
              struct_span_err(origin_span(origin), "E0491",
                    "in type '{}', reference has a longer lifetime than "
                    \o "the data it references"),
                "the pointer is valid for ",
                sub, ""),
              "but the referenced data is only valid for ",
              sup, "")
      [] OTHER ->
            report_extra_impl_obligation(origin_span(origin),
                                         "'sup: sub'")

\* the text of the one note that note_region_origin writes
region_origin_note(origin) ==
    CASE origin.variant = "Subtype" ->
            IF values_str(origin.trace.values).tag = "Some"
            THEN "...so that "
                 \o as_requirement_str(origin.trace.cause.code)
                 \o " (expected "
                 \o values_str(origin.trace.values).value.expected
                 \o ", found "
                 \o values_str(origin.trace.values).value.found \o ")"
            ELSE "...so that "
                 \o as_requirement_str(origin.trace.cause.code)
      [] origin.variant = "Reborrow" ->
            "...so that reference does not outlive borrowed content"
      [] origin.variant = "ReborrowUpvar" ->
            "...so that closure can access '{}'"
      [] origin.variant = "InfStackClosure" ->
            "...so that closure does not outlive its stack frame"
      [] origin.variant = "InvokeClosure" ->
            "...so that closure is not invoked outside its lifetime"
      [] origin.variant = "DerefPointer" ->
            "...so that pointer is not dereferenced outside its lifetime"
      [] origin.variant = "FreeVariable" ->
            "...so that captured variable '{}' does not outlive the "
            \o "enclosing closure"
      [] origin.variant = "IndexSlice" ->
            "...so that slice is not indexed outside the lifetime"
      [] origin.variant = "RelateObjectBound" ->
            "...so that it can be closed over into an object"
      [] origin.variant = "CallRcvr" ->
            "...so that method receiver is valid for the method call"
      [] origin.variant = "CallArg" ->
            "...so that argument is valid for the call"
      [] origin.variant = "CallReturn" ->
            "...so that return value is valid for the call"
      [] origin.variant = "Operand" ->
            "...so that operand is valid for operation"
      [] origin.variant = "AddrOf" ->
            "...so that reference is valid at the time of borrow"
      [] origin.variant = "AutoBorrow" ->
            "...so that auto-reference is valid at the time of borrow"
      [] origin.variant = "ExprTypeIsNotInScope" ->
            "...so type '{}' of expression is valid during the expression"
      [] origin.variant = "BindingTypeIsNotValidAtDecl" ->
            "...so that variable is valid at time of its declaration"
      [] origin.variant = "ParameterInScope" ->
            "...so that a type/lifetime parameter is in scope here"
      [] origin.variant = "DataBorrowed" ->
            "...so that the type '{}' is not borrowed for too long"
      [] origin.variant = "ReferenceOutlivesReferent" ->
            "...so that the reference type '{}' does not outlive the data "
            \o "it points at"
      [] origin.variant = "RelateParamBound" ->
            "...so that the type '{}' will meet its required lifetime bounds"
      [] origin.variant = "RelateDefaultParamBound" ->
            "...so that type parameter instantiated with '{}', will meet "
            \o "its declared lifetime bounds"
      [] origin.variant = "RelateRegionParamBound" ->
            "...so that the declared lifetime parameter bounds are satisfied"
      [] origin.variant = "SafeDestructor" ->
            "...so that references are valid when the destructor runs"
      [] OTHER ->
            "...so that the definition in impl matches the definition "
            \o "from the trait"

note_region_origin(err, origin) ==
    span_note(err, origin_span(origin), region_origin_note(origin))

\* the var_description of report_inference_failure
var_description(var_origin) ==
    CASE var_origin = "MiscVariable" -> ""
      [] var_origin = "PatternRegion" -> " for pattern"
      [] var_origin = "AddrOfRegion" -> " for borrow expression"
      [] var_origin = "Autoref" -> " for autoref"
      [] var_origin = "Coercion" -> " for automatic coercion"
      [] var_origin = "LateBoundRegion:FnCall" ->
            " for lifetime parameter {}in function call"
      [] var_origin = "LateBoundRegion:HigherRankedType" ->
            " for lifetime parameter {}in generic type"
      [] var_origin = "LateBoundRegion:AssocTypeProjection" ->
            " for lifetime parameter {}in trait containing associated "
            \o "type '{}'"
      [] var_origin = "EarlyBoundRegion" -> " for lifetime parameter '{}'"
      [] var_origin = "BoundRegionInCoherence" ->
            " for lifetime parameter '{}' in coherence check"
      [] OTHER -> " for capture of '{}' by closure"

report_inference_failure(var_origin) ==
    struct_span_err(var_origin \o ".span", "E0495",
        "cannot infer an appropriate lifetime" \o var_description(var_origin)
        \o " due to conflicting requirements")

\* Variant: the sub side is explained before the sup side.
report_sub_sup_conflict_sub_first(var_origin, sub_origin, sub, sup_origin, sup) ==
    LET err == report_inference_failure(var_origin)
        e1  == note_and_explain_region(err,
                    "but, the lifetime must be valid for ", sub, "...")
        e2  == note_region_origin(e1, sub_origin)
        e3  == note_and_explain_region(e2,
                    "first, the lifetime cannot outlive ", sup, "...")
    IN  note_region_origin(e3, sup_origin)

\* report_sub_sup_conflict: the diagnostic it emits
report_sub_sup_conflict(var_origin, sub_origin, sub, sup_origin, sup) ==
    LET err == report_inference_failure(var_origin)
        e1  == note_and_explain_region(err,
                    "first, the lifetime cannot outlive ", sup, "...")
        e2  == note_region_origin(e1, sup_origin)
        e3  == note_and_explain_region(e2,
                    "but, the lifetime must be valid for ", sub, "...")
    IN  note_region_origin(e3, sub_origin)

\* GenericKind::Param / GenericKind::Projection
labeled_user_string(bound_kind) ==
    IF bound_kind = "Param"
    THEN "the parameter type '{}'"
    ELSE "the associated type '{}'"

\* Variant: every bound region counts as a named one.
BrNamed_any(br) == TRUE

\* BoundRegion::BrNamed(..)
BrNamed(br) == br \notin {"BrAnon(0)", "BrFresh", "BrEnv"}

\* 'let mut err = match *sub { ... }' of report_generic_bound_failure
bound_failure_err(origin, bound_kind, sub) ==
    CASE sub.tag = "ReFree" /\ BrNamed(sub.bound_region) ->
            help(struct_span_err(origin_span(origin), "E0309",
                    labeled_user_string(bound_kind)
                    \o " may not live long enough"),
                 "consider adding an explicit lifetime bound "
                 \o "'{}: {}'...")
      [] sub.tag = "ReStatic" ->
            help(struct_span_err(origin_span(origin), "E0310",
                    labeled_user_string(bound_kind)
                    \o " may not live long enough"),
                 "consider adding an explicit lifetime bound "
                 \o "'{}: 'static'...")
      [] OTHER ->
            note_and_explain_region(
                help(struct_span_err(origin_span(origin), "E0311",
                        labeled_user_string(bound_kind)
                        \o " may not live long enough"),
                     "consider adding an explicit lifetime bound "
                     \o "for '{}'"),
                labeled_user_string(bound_kind) \o " must be valid for ",
                sub, "...")

\* Variant: the generic-bound diagnostic takes the code of the Reborrow case.
report_generic_bound_failure_E0312(origin, bound_kind, sub) ==
    note_region_origin(
        struct_span_err(origin_span(origin), "E0312",
            labeled_user_string(bound_kind) \o " may not live long enough"),
        origin)

\* Variant: the return after the impl-vs-trait diagnostic is missing.
report_generic_bound_failure_no_return(origin, bound_kind, sub) ==
    note_region_origin(bound_failure_err(origin, bound_kind, sub), origin)

\* report_generic_bound_failure: the diagnostic it emits
report_generic_bound_failure(origin, bound_kind, sub) ==
    IF origin.variant = "CompareImplMethodObligation"
    THEN report_extra_impl_obligation(origin_span(origin),
                                      "'bound_kind: sub'")
    ELSE note_region_origin(bound_failure_err(origin, bound_kind, sub),
                            origin)

\* Variant: the entry of a variable failure is noted like a conflict.
report_processed_origin_noted(origin) ==
    IF origin.tag = "VariableFailure"
    THEN note(report_inference_failure(origin.var_origin),
              "first, the lifetime cannot outlive ...")
    ELSE report_concrete_failure(origin.origin, origin.sub, origin.sup)

\* the diagnostic report_processed_errors builds for one entry of origins
report_processed_origin(origin) ==
    IF origin.tag = "VariableFailure"
    THEN report_inference_failure(origin.var_origin)
    ELSE report_concrete_failure(origin.origin, origin.sub, origin.sup)

\* Variant: the loop of report_processed_errors stops after the first entry.
report_processed_errors_first(origs) ==
    IF origs = <<>> THEN <<>> ELSE <<report_processed_origin(Head(origs))>>

\* Variant: the entries of origins are taken from the last to the first.
report_processed_errors_reversed(origs) ==
    [k \in 1..Len(origs) |->
        report_processed_origin(origs[Len(origs) + 1 - k])]

\* report_processed_errors: the diagnostics it builds, in order
report_processed_errors(origs) ==
    [k \in 1..Len(origs) |-> report_processed_origin(origs[k])]

InReport(tag) ==
    /\ pc = "report"
    /\ ridx <= Len(report_errors)
    /\ report_errors[ridx].tag = tag

\* DiagnosticBuilder::cancelled
is_cancelled(err) == err.cancelled

not_cancelled(err) == ~err.cancelled

\* DiagnosticBuilder::emit on each of diags in order: a cancelled diagnostic
\* is not handed to the handler
emit(log, diags) == log \o SelectSeq(diags, not_cancelled)

\* One arm of the match of report_region_errors: diags are the diagnostics
\* the arm builds and calls emit on.
Dispatch(diags) ==
    /\ dispatched' = Append(dispatched, report_errors[ridx])
    /\ emitted' = emit(emitted, diags)
    /\ cancelled' = cancelled \o SelectSeq(diags, is_cancelled)
    /\ ridx' = ridx + 1
    /\ UNCHANGED <<errors, pc, idx, grouper_vars, result, report_errors,
                   type_err_vars>>

ReportConcreteFailure ==
    /\ InReport("ConcreteFailure")
    /\ LET error == report_errors[ridx]
       IN  Dispatch(<<report_concrete_failure(error.origin, error.sub,
                                              error.sup)>>)

ReportGenericBoundFailure ==
    /\ InReport("GenericBoundFailure")
    /\ LET error == report_errors[ridx]
       IN  Dispatch(<<report_generic_bound_failure(error.origin, error.kind,
                                                   error.region)>>)

ReportSubSupConflict ==
    /\ InReport("SubSupConflict")
    /\ LET error == report_errors[ridx]
       IN  Dispatch(<<report_sub_sup_conflict(error.var_origin,
                                              error.sub_origin, error.sub,
                                              error.sup_origin, error.sup)>>)

ReportProcessedErrors ==
    /\ InReport("ProcessedErrors")
    /\ LET error == report_errors[ridx]
       IN  IF error.same_regions # <<>>
           THEN Dispatch(report_processed_errors(error.origins))
           ELSE Dispatch(<<>>)

\* The dispatch loop is over: report_region_errors returns.
ReportReturn ==
    /\ pc = "report"
    /\ ridx = Len(report_errors) + 1
    /\ pc' = "done"
    /\ UNCHANGED <<errors, idx, grouper_vars, report_vars>>

\* --- the type-mismatch renderer called from outside the region errors -----

\* a caller is about to enter the type-mismatch renderer with one call
TypeErrInit ==
    /\ errors = <<>>
    /\ pc = "type_err"
    /\ idx = 1
    /\ origins = <<>>
    /\ same_regions = <<>>
    /\ other_errors = <<>>
    /\ bound_failures = <<>>
    /\ result = Pending
    /\ report_errors = <<>>
    /\ ridx = 1
    /\ dispatched = <<>>
    /\ emitted = <<>>
    /\ cancelled = <<>>
    /\ type_err_call \in TypeErrCalls
    /\ type_err_diag = None

\* note_type_err runs on a diagnostic the caller has built.
NoteTypeErr ==
    /\ pc = "type_err"
    /\ type_err_call.entry = "note_type_err"
    /\ type_err_diag' =
            note_type_err(
                struct_span_err("cause.span", "E0308",
                                as_failure_str(type_err_call.cause.code)),
                type_err_call.cause, type_err_call.secondary_span,
                type_err_call.values, type_err_call.terr)
    /\ pc' = "type_err_done"
    /\ UNCHANGED <<errors, idx, grouper_vars, result, report_errors, ridx,
                   dispatched, emitted, cancelled, type_err_call>>

\* report_and_explain_type_error runs on the trace and the error of a caller.
ReportAndExplainTypeError ==
    /\ pc = "type_err"
    /\ type_err_call.entry = "report_and_explain_type_error"
    /\ type_err_diag' =
            report_and_explain_type_error(
                TypeTrace(type_err_call.cause.code,
                          type_err_call.values.value),
                type_err_call.terr)
    /\ pc' = "type_err_done"
    /\ UNCHANGED <<errors, idx, grouper_vars, result, report_errors, ridx,
                   dispatched, emitted, cancelled, type_err_call>>

TypeErrNext ==
    \/ NoteTypeErr
    \/ ReportAndExplainTypeError

Next ==
    \/ ProcessConcreteFailure
    \/ ProcessSubSupConflict
    \/ ProcessGenericBoundFailure
    \/ ProcessProcessedErrors
    \/ ProcessErrorsReturn
    \/ ReportConcreteFailure
    \/ ReportGenericBoundFailure
    \/ ReportSubSupConflict
    \/ ReportProcessedErrors
    \/ ReportReturn

Spec == Init /\ [][Next]_vars

RenderSpec == RenderInit /\ [][Next]_vars

TypeErrSpec == TypeErrInit /\ [][TypeErrNext]_vars

TypeOK ==
    /\ pc \in {"process_errors", "report", "done", "bug", "panic",
              "type_err", "type_err_done"}
    /\ idx \in 1..(Len(errors) + 1)
    /\ ridx \in 1..(Len(report_errors) + 1)

-----------------------------------------------------------------------------
(* Vocabulary of the properties                                             *)

\* process_errors has returned to report_region_errors
Returned == pc \in {"report", "done"}

FnParents == {"ItemFn", "NodeImplItem", "NodeTraitItem"}

\* scope is the extent of a function: the parent of its node is a fn item,
\* an impl item or a trait item
FunctionScope(scope) == parent_node(node_id(scope)) \in FnParents

IsPairRecord(e) == e.tag \in {"ConcreteFailure", "SubSupConflict"}

IsGenericBoundFailure(e) == e.tag = "GenericBoundFailure"

IsProcessedErrors(e) == e.tag = "ProcessedErrors"

\* an origin of the record is an impl-vs-trait comparison
HasCompareImplOrigin(e) ==
    \/ /\ e.tag = "ConcreteFailure"
       /\ e.origin.variant = "CompareImplMethodObligation"
    \/ /\ e.tag = "SubSupConflict"
       /\ \/ e.sub_origin.variant = "CompareImplMethodObligation"
          \/ e.sup_origin.variant = "CompareImplMethodObligation"

\* both regions of the record are Free regions of one function scope
FreeOfOneFunction(e) ==
    /\ IsPairRecord(e)
    /\ e.sub.tag = "ReFree"
    /\ e.sup.tag = "ReFree"
    /\ e.sub.scope = e.sup.scope
    /\ FunctionScope(e.sub.scope)

\* the record is one that the grouper folds into the clusters
Groupable(e) == FreeOfOneFunction(e) /\ ~HasCompareImplOrigin(e)

\* the record is one that the grouper keeps unchanged
IsOther(e) == IsPairRecord(e) /\ ~Groupable(e)

\* the scopes of the Free regions a record mentions
FreeScopes(e) ==
    IF IsPairRecord(e)
    THEN {r.scope : r \in {x \in {e.sub, e.sup} : x.tag = "ReFree"}}
    ELSE IF IsGenericBoundFailure(e) /\ e.region.tag = "ReFree"
    THEN {e.region.scope}
    ELSE {}

NoTwoShareAScope(errs) ==
    \A i, j \in 1..Len(errs) :
        i # j => FreeScopes(errs[i]) \cap FreeScopes(errs[j]) = {}

BoundRegionNames == {"a", "b", "c"}

-----------------------------------------------------------------------------
(* C1                                                                        *)

\* the two records of the input have (sub, sup) bound regions <<s1, p1>> and
\* <<s2, p2>> on the function scope sc, neither with an impl-vs-trait origin
TwoConcreteFailures(sc, s1, p1, s2, p2) ==
    /\ Len(errors) = 2
    /\ \A k \in 1..2 : /\ errors[k].tag = "ConcreteFailure"
                       /\ ~HasCompareImplOrigin(errors[k])
    /\ FunctionScope(sc)
    /\ errors[1].sub = ReFree(sc, s1) /\ errors[1].sup = ReFree(sc, p1)
    /\ errors[2].sub = ReFree(sc, s2) /\ errors[2].sup = ReFree(sc, p2)

\* process_errors returned one ProcessedErrors that replaces both inputs and
\* holds the single cluster <<R2, R1, R3>>
OneClusterResult(sc, R1, R2, R3) ==
    result = Some(<<ProcessedErrors(
                <<ConcreteFailureOrigin(errors[1].origin, errors[1].sub,
                                        errors[1].sup),
                  ConcreteFailureOrigin(errors[2].origin, errors[2].sub,
                                        errors[2].sup)>>,
                <<SameRegions(node_id(sc), <<R2, R1, R3>>)>>)>>)

\* C1 as stated: two ConcreteFailures with (sub, sup) = (R1, R2) and then
\* (R2, R3) on one function scope are replaced by one ProcessedErrors with
\* the single cluster R2, R1, R3.
C1_Original ==
    Returned =>
        \A sc \in CodeExtents : \A R1, R2, R3 \in BoundRegionNames :
            (/\ Cardinality({R1, R2, R3}) = 3
             /\ TwoConcreteFailures(sc, R1, R2, R2, R3))
            => OneClusterResult(sc, R1, R2, R3)

\* C1 amended: the pairs are (sup, sub) pairs.  Two ConcreteFailures with
\* (sup, sub) = (R1, R2) and then (R2, R3) on one function scope are replaced
\* by one ProcessedErrors with the single cluster R2, R1, R3.
C1_Transitivity ==
    Returned =>
        \A sc \in CodeExtents : \A R1, R2, R3 \in BoundRegionNames :
            (/\ Cardinality({R1, R2, R3}) = 3
             /\ TwoConcreteFailures(sc, R2, R1, R3, R2))
            => OneClusterResult(sc, R1, R2, R3)

C1_Witness ==
    /\ pc = "done"
    /\ TwoConcreteFailures(1, "b", "a", "c", "b")
    /\ OneClusterResult(1, "a", "b", "c")
    /\ Len(dispatched) = 1

-----------------------------------------------------------------------------
(* C2                                                                        *)

\* C2 as stated: when no two records share a free-region scope, the list
\* handed back for reporting is the input list.
C2_Original ==
    (Returned /\ NoTwoShareAScope(errors)) => report_errors = errors

\* GenericBoundFailure records occur together with records of another kind
MixedWithBoundFailures(errs) ==
    /\ \E k \in 1..Len(errs) : IsGenericBoundFailure(errs[k])
    /\ \E k \in 1..Len(errs) : ~IsGenericBoundFailure(errs[k])

\* C2 amended: when no two records share a free-region scope, no record is
\* groupable and GenericBoundFailures do not occur together with records of
\* another kind, process_errors returns Some of the input list.
C2_NoOverlapFallback ==
    (/\ pc # "process_errors"
     /\ NoTwoShareAScope(errors)
     /\ \A k \in 1..Len(errors) : ~IsProcessedErrors(errors[k])
     /\ \A k \in 1..Len(errors) : ~Groupable(errors[k])
     /\ ~MixedWithBoundFailures(errors))
    => (result = Some(errors) /\ report_errors = errors)

C2_Witness ==
    /\ pc = "done"
    /\ Len(errors) = 2
    /\ NoTwoShareAScope(errors)
    /\ \A k \in 1..Len(errors) : IsOther(errors[k])
    /\ \E k \in 1..Len(errors) : FreeScopes(errors[k]) # {}
    /\ result = Some(errors)

-----------------------------------------------------------------------------
(* C3                                                                        *)

TwoClusterScopes ==
    \E i, j \in 1..Len(same_regions) :
        same_regions[i].scope_id # same_regions[j].scope_id

\* C3: when the fold has left two clusters with different scope_id,
\* process_errors returns None for the whole batch: no ProcessedErrors and
\* no partial list, the raw input is what is reported.
C3_InconsistencyFallback ==
    (pc \notin {"process_errors", "bug"} /\ TwoClusterScopes)
    => (result = None /\ report_errors = errors)

C3_Witness ==
    /\ pc = "done"
    /\ TwoClusterScopes
    /\ other_errors # <<>>
    /\ result = None

-----------------------------------------------------------------------------
(* C4                                                                        *)

\* C4: the iteration of the loop over a record with an impl-vs-trait origin
\* adds no bound region to any cluster and no entry to origins.
C4_Exclusion ==
    [][ (/\ pc = "process_errors"
         /\ idx <= Len(errors)
         /\ HasCompareImplOrigin(errors[idx]))
        => (same_regions' = same_regions /\ origins' = origins) ]_vars

C4_Witness ==
    /\ pc = "done"
    /\ \E k \in 1..Len(errors) :
          /\ errors[k].tag = "SubSupConflict"
          /\ errors[k].sup_origin.variant = "CompareImplMethodObligation"
          /\ FreeOfOneFunction(errors[k])
          /\ \E m \in 1..Len(other_errors) : other_errors[m] = errors[k]
    /\ same_regions # <<>>

-----------------------------------------------------------------------------
(* C5                                                                        *)

OnlyBoundFailures(errs) ==
    \A k \in 1..Len(errs) : IsGenericBoundFailure(errs[k])

\* C5: for an input of GenericBoundFailures only, process_errors returns
\* Some of exactly these records in the original order.
C5_DeferredPreserved ==
    (pc # "process_errors" /\ OnlyBoundFailures(errors))
    => result = Some(errors)

C5_Witness ==
    /\ pc = "done"
    /\ OnlyBoundFailures(errors)
    /\ Len(errors) >= 2
    /\ errors[1] # errors[2]
    /\ result = Some(errors)
    /\ dispatched = errors

-----------------------------------------------------------------------------
(* C6                                                                        *)

NoProcessedErrors(errs) ==
    \A k \in 1..Len(errs) : ~IsProcessedErrors(errs[k])

\* C6: no assert! of process_errors fails, and for a non-empty input without
\* a ProcessedErrors a returned Some(list) has a non-empty list.
C6_Postcondition ==
    /\ pc # "panic"
    /\ (/\ Len(errors) > 0
        /\ NoProcessedErrors(errors)
        /\ result.tag = "Some") => Len(result.value) > 0

C6_Witness ==
    /\ pc = "done"
    /\ Len(errors) > 0
    /\ OnlyBoundFailures(errors)
    /\ result.tag = "Some"
    /\ Len(result.value) = Len(errors)

-----------------------------------------------------------------------------
(* C7                                                                        *)

CountProcessedErrors(list) ==
    Cardinality({k \in 1..Len(list) : IsProcessedErrors(list[k])})

\* C7: a returned list holds at most one ProcessedErrors, at its head when
\* there is one, directly followed by the records kept as 'other' in the
\* order of the input.
C7_OutputOrder ==
    result.tag = "Some" =>
        LET list   == result.value
            n      == CountProcessedErrors(list)
            others == SelectSeq(errors, IsOther)
        IN  /\ n <= 1
            /\ n = 1 => IsProcessedErrors(list[1])
            /\ Len(list) >= n + Len(others)
            /\ SubSeq(list, n + 1, n + Len(others)) = others

C7_Witness ==
    /\ pc = "done"
    /\ result.tag = "Some"
    /\ Len(result.value) = 3
    /\ IsProcessedErrors(result.value[1])
    /\ result.value[2] # result.value[3]

-----------------------------------------------------------------------------
(* C8                                                                        *)

\* C8: a returned list holds the GenericBoundFailures of the input when no
\* cluster was formed and no 'other' record was kept, and holds no
\* GenericBoundFailure at all in every other case.
C8_Suppression ==
    result.tag = "Some" =>
        LET inList == SelectSeq(result.value, IsGenericBoundFailure)
            inInput == SelectSeq(errors, IsGenericBoundFailure)
        IN  IF same_regions = <<>> /\ other_errors = <<>>
            THEN inList = inInput
            ELSE inList = <<>>

C8_Witness ==
    /\ pc = "done"
    /\ result.tag = "Some"
    /\ SelectSeq(errors, IsGenericBoundFailure) # <<>>
    /\ SelectSeq(result.value, IsGenericBoundFailure) = <<>>
    /\ same_regions = <<>>

-----------------------------------------------------------------------------
(* C9                                                                        *)

\* C9: an input that holds a ProcessedErrors never gets past process_errors:
\* the run halts at that record with the bug signal, process_errors returns
\* neither Some nor None and nothing is dispatched or emitted.
C9_RawProcessedErrorsIsBug ==
    /\ ~NoProcessedErrors(errors) =>
          /\ pc \in {"process_errors", "bug"}
          /\ result = Pending
          /\ dispatched = <<>>
          /\ emitted = <<>>
          /\ \A k \in 1..(idx - 1) : ~IsProcessedErrors(errors[k])
    /\ pc = "bug" => IsProcessedErrors(errors[idx])

C9_Witness ==
    /\ pc = "bug"
    /\ idx = 3
    /\ origins # <<>>
    /\ emitted = <<>>

-----------------------------------------------------------------------------
(* C10                                                                       *)

\* the list report_region_errors is to iterate, by the outcome of the grouper
ListToReport == IF result = None THEN errors ELSE result.value

\* C10: the records are dispatched one at a time in the order of the
\* grouper's list when it returned Some and of the raw input when it returned
\* None; at the end every record of that list has been dispatched.
C10_Dispatch ==
    Returned =>
        /\ ridx <= Len(ListToReport) + 1
        /\ dispatched = SubSeq(ListToReport, 1, ridx - 1)
        /\ pc = "done" => dispatched = ListToReport

C10_Witness ==
    /\ pc = "done"
    /\ result = None
    /\ Len(errors) = 3
    /\ dispatched = errors
    /\ \E k \in 1..Len(errors) : IsGenericBoundFailure(errors[k])

-----------------------------------------------------------------------------
(* C11                                                                       *)

\* number of diagnostics the arm of report_region_errors builds for a record
DiagnosticsBuilt(e) ==
    IF IsProcessedErrors(e)
    THEN IF e.same_regions # <<>> THEN Len(e.origins) ELSE 0
    ELSE 1

RECURSIVE DiagnosticsBuiltFor(_)
DiagnosticsBuiltFor(records) ==
    IF records = <<>>
    THEN 0
    ELSE DiagnosticsBuilt(Head(records)) + DiagnosticsBuiltFor(Tail(records))

\* C11 as stated: one emitted diagnostic for each record iterated so far,
\* never zero and never more than one per record.
C11_Original == Len(emitted) = Len(dispatched)

\* C11: one diagnostic is built for each ConcreteFailure, GenericBoundFailure
\* and SubSupConflict record iterated and one per entry of origins for each
\* ProcessedErrors record; each diagnostic built is emitted exactly once,
\* except one that note_type_err cancelled, which is not emitted at all.
C11_OnePerRecordOrOrigin ==
    /\ Len(emitted) + Len(cancelled) = DiagnosticsBuiltFor(dispatched)
    /\ \A k \in 1..Len(emitted) : ~emitted[k].cancelled
    /\ \A k \in 1..Len(cancelled) :
            /\ cancelled[k].cancelled
            /\ cancelled[k].code = "E0308"

\* a list whose grouped record carries two origins, one of them cancelled
C11_Witness ==
    /\ pc = "done"
    /\ Len(dispatched) = 1
    /\ IsProcessedErrors(dispatched[1])
    /\ Len(dispatched[1].origins) = 2
    /\ Len(emitted) = 1
    /\ Len(cancelled) = 1

-----------------------------------------------------------------------------
(* C13                                                                       *)

\* a ConcreteFailure whose diagnostic report_concrete_failure builds itself
RendersItself(e) ==
    /\ e.tag = "ConcreteFailure"
    /\ e.origin.variant \notin {"Subtype", "CompareImplMethodObligation"}

\* every record dispatched so far gave one emitted diagnostic, so that
\* emitted[k] is the diagnostic of dispatched[k]
OneEmittedEach ==
    /\ cancelled = <<>>
    /\ \A k \in 1..Len(dispatched) : ~IsProcessedErrors(dispatched[k])

GenericBoundCodes == {"E0309", "E0310", "E0311"}

InferenceFailureCodes == {"E0495"}

TypeMismatchCodes == {"E0308", "E0317", "E0580"}

\* the diagnostic of e is a generic-bound, inference-failure or type-mismatch
\* diagnostic with one of the codes of its family
CodeOfItsFamily(e, code) ==
    /\ (/\ IsGenericBoundFailure(e)
        /\ e.origin.variant # "CompareImplMethodObligation")
            => code \in GenericBoundCodes
    /\ e.tag = "SubSupConflict" => code \in InferenceFailureCodes
    /\ (e.tag = "ConcreteFailure" /\ e.origin.variant = "Subtype")
            => code \in TypeMismatchCodes

\* C13: the diagnostics report_concrete_failure builds itself carry a code
\* per SubregionOrigin variant: two different variants never give the same
\* code, and none of these codes is E0309, E0310, E0311, E0495, E0308, E0317
\* or E0580, which are the codes the generic-bound, inference-failure and
\* type-mismatch diagnostics carry.
C13_StableIdentifiers ==
    OneEmittedEach =>
        \A i, j \in 1..Len(dispatched) :
            /\ CodeOfItsFamily(dispatched[j], emitted[j].code)
            /\ RendersItself(dispatched[i]) =>
                /\ emitted[i].code \notin GenericBoundCodes
                        \cup InferenceFailureCodes \cup TypeMismatchCodes
                /\ ~RendersItself(dispatched[j])
                        => emitted[j].code # emitted[i].code
                /\ (/\ RendersItself(dispatched[j])
                    /\ dispatched[j].origin.variant
                            # dispatched[i].origin.variant)
                        => emitted[j].code # emitted[i].code

\* two origin variants rendered in one run, next to a generic-bound diagnostic
C13_Witness ==
    /\ pc = "done"
    /\ OneEmittedEach
    /\ Len(dispatched) = 2
    /\ RendersItself(dispatched[1])
    /\ RendersItself(dispatched[2])
    /\ dispatched[1].origin.variant = "DataBorrowed"
    /\ dispatched[2].origin.variant = "ReferenceOutlivesReferent"
    /\ emitted[1].code = "E0490"
    /\ emitted[2].code = "E0491"

-----------------------------------------------------------------------------
(* C14                                                                       *)

IsNote(child) == child.kind = "note"

\* the note explains the scope: it names the scope's span, or the scope
\* itself when the span or the node of the scope is not known
ExplainsScope(child, scope) ==
    \/ /\ child.span = scope_span(scope)
       /\ child.span # NoSpan
       /\ Mentions(child.msg, " at scope" \o ToString(scope))
    \/ Mentions(child.msg, "unknown scope: " \o ToString(scope))

\* the record about to be dispatched is the Reborrow scenario
ReborrowOfScopes(e) ==
    /\ e.tag = "ConcreteFailure"
    /\ e.origin.variant = "Reborrow"
    /\ e.sub.tag = "ReScope"
    /\ e.sup.tag = "ReScope"

\* the span or the node of the scope is not resolved by the program index
Unresolved(scope) ==
    \/ scope_span(scope) = NoSpan
    \/ scope_tag(hir_find(node_id(scope))) = ""

\* the last diagnostic emitted is the Reborrow diagnostic of e
ReborrowDiagnostic(d, e) ==
    /\ d.msg = "lifetime of reference outlives lifetime of borrowed "
               \o "content..."
    /\ Len(d.children) = 2
    /\ IsNote(d.children[1])
    /\ StartsWith(d.children[1].msg, "...the reference is valid for ")
    /\ ExplainsScope(d.children[1], e.sub.scope)
    /\ IsNote(d.children[2])
    /\ StartsWith(d.children[2].msg,
                  "...but the borrowed content is only valid for ")
    /\ ExplainsScope(d.children[2], e.sup.scope)

\* C14: dispatching a ConcreteFailure with origin Reborrow and two Scope
\* regions emits exactly one diagnostic, with the Reborrow message and exactly
\* two notes: first the explanation of sub after '...the reference is valid
\* for ', then the explanation of sup after '...but the borrowed content is
\* only valid for '; also when the span or node of a scope is not resolved.
C14_ReborrowScenario ==
    [][(/\ pc = "report"
        /\ ridx <= Len(report_errors)
        /\ ReborrowOfScopes(report_errors[ridx])
        /\ ridx' = ridx + 1)
       => /\ Len(emitted') = Len(emitted) + 1
          /\ SubSeq(emitted', 1, Len(emitted)) = emitted
          /\ cancelled' = cancelled
          /\ ReborrowDiagnostic(emitted'[Len(emitted')],
                                report_errors[ridx])]_vars

\* the scenario with a sub scope that has no span and a sup scope whose node
\* is of no kind the explainer knows
C14_Witness ==
    /\ pc = "done"
    /\ Len(dispatched) = 1
    /\ ReborrowOfScopes(dispatched[1])
    /\ scope_span(dispatched[1].sub.scope) = NoSpan
    /\ scope_span(dispatched[1].sup.scope) # NoSpan
    /\ Unresolved(dispatched[1].sup.scope)
    /\ Len(emitted) = 1
    /\ ReborrowDiagnostic(emitted[1], dispatched[1])

-----------------------------------------------------------------------------
(* C15                                                                       *)

\* the renderer has run on the call
TypeErrDone == pc = "type_err_done"

\* the type error of the call is a mismatch of two primitive types
BothPrimitive ==
    /\ type_err_call.terr.tag = "Sorts"
    /\ type_err_call.terr.expected.sort = "primitive"
    /\ type_err_call.terr.found.sort = "primitive"

HasChild(d, kind) == \E k \in 1..Len(d.children) : d.children[k].kind = kind

\* the span label with the raw type error at the span of the cause
HasErrorLabel(d) ==
    \E k \in 1..Len(d.children) :
        /\ d.children[k].kind = "label"
        /\ d.children[k].span = "cause.span"
        /\ d.children[k].msg = type_err_call.terr.tag

\* the values of the call are absent or print without an error type
ValuesResolve ==
    \/ type_err_call.values = None
    \/ /\ type_err_call.values # None
       /\ ~Mentions(type_err_call.values.value.expected.name, "[type error]")
       /\ ~Mentions(type_err_call.values.value.found.name, "[type error]")

\* C15 as stated: for two primitive types no expected/found line is added,
\* the label is attached and the diagnostic is not cancelled.
C15_Original ==
    (TypeErrDone /\ BothPrimitive) =>
        /\ ~HasChild(type_err_diag, "expected_found")
        /\ HasErrorLabel(type_err_diag)
        /\ ~type_err_diag.cancelled

\* C15: when the type error is a mismatch of two primitive types and the
\* values of the call, if any, print without an error type, note_type_err
\* adds no expected/found line, attaches the label with the raw type error at
\* the span of the cause, and does not cancel the diagnostic.
C15_PrimitiveSuppression ==
    (TypeErrDone /\ BothPrimitive /\ ValuesResolve) =>
        /\ ~HasChild(type_err_diag, "expected_found")
        /\ HasErrorLabel(type_err_diag)
        /\ ~type_err_diag.cancelled

\* i32 against u32 with the values given: only the label is on the diagnostic
C15_Witness ==
    /\ TypeErrDone
    /\ BothPrimitive
    /\ type_err_call.values = Some(Types(TyI32, TyU32))
    /\ type_err_call.secondary_span = None
    /\ Len(type_err_diag.children) = 1
    /\ HasErrorLabel(type_err_diag)

-----------------------------------------------------------------------------
(* C16                                                                       *)

\* the type error compares two nominal types or two traits
ComparesIdentifiers ==
    \/ /\ type_err_call.terr.tag = "Sorts"
       /\ type_err_call.terr.expected.sort = "adt"
       /\ type_err_call.terr.found.sort = "adt"
    \/ type_err_call.terr.tag = "Traits"

\* the two identifiers compared
ComparedIdentifiers ==
    IF type_err_call.terr.tag = "Sorts"
    THEN <<type_err_call.terr.expected.did, type_err_call.terr.found.did>>
    ELSE <<type_err_call.terr.expected, type_err_call.terr.found>>

HasVersionSkewNote(d) ==
    \E k \in 1..Len(d.children) :
        /\ d.children[k].kind = "note"
        /\ StartsWith(d.children[k].msg,
                      "Perhaps two different versions of crate")

\* C16: on a diagnostic that reaches check_and_note_conflicting_crates, the
\* 'two different versions of crate' note is present if and only if the type
\* error compares two nominal types or two traits whose identifiers are both
\* of external crates, of different crates, and print the same path.
C16_VersionSkewNote ==
    (TypeErrDone /\ ~type_err_diag.cancelled) =>
        (HasVersionSkewNote(type_err_diag) <=>
            /\ ComparesIdentifiers
            /\ ComparedIdentifiers[1].krate # 0
            /\ ComparedIdentifiers[2].krate # 0
            /\ ComparedIdentifiers[1].krate # ComparedIdentifiers[2].krate
            /\ ComparedIdentifiers[1].path = ComparedIdentifiers[2].path)

\* foo::Bar of crate 1 against foo::Bar of crate 2
C16_Witness ==
    /\ TypeErrDone
    /\ type_err_call.terr = Sorts(TyAdt(DefId(1, "foo::Bar")),
                                  TyAdt(DefId(2, "foo::Bar")))
    /\ ~type_err_diag.cancelled
    /\ HasVersionSkewNote(type_err_diag)

-----------------------------------------------------------------------------
(* C17                                                                       *)

\* the loop of process_errors takes the record at idx and goes on
GrouperStep ==
    /\ pc = "process_errors"
    /\ idx <= Len(errors)
    /\ idx' = idx + 1

\* the record taken was folded into the clusters: its origin was kept
Folded ==
    /\ Len(origins') = Len(origins) + 1
    /\ other_errors' = other_errors
    /\ bound_failures' = bound_failures

\* the conditions as stated: a pair record with two Free regions of equal
\* scope and no impl-vs-trait comparison origin
StatedGroupable(e) ==
    /\ IsPairRecord(e)
    /\ e.sub.tag = "ReFree"
    /\ e.sup.tag = "ReFree"
    /\ e.sub.scope = e.sup.scope
    /\ ~HasCompareImplOrigin(e)

\* C17 as stated: a record is folded exactly when it meets the stated
\* conditions, and no further condition is required.
C17_Original ==
    [][GrouperStep => (Folded <=> StatedGroupable(errors[idx]))]_vars

\* C17: process_errors folds a record into the clusters exactly when it is a
\* ConcreteFailure or SubSupConflict whose sub and sup are both Free with
\* equal scope, whose origin is not CompareImplMethodObligation on either
\* side, and whose scope is a node with a function, impl item or trait item
\* as its parent.
C17_GroupableClassification ==
    [][GrouperStep => (Folded <=> Groupable(errors[idx]))]_vars

\* a pair of one scope that is no function body was kept unchanged, and a
\* pair of a function scope was folded
C17_Witness ==
    /\ pc = "process_errors"
    /\ idx = 3
    /\ StatedGroupable(errors[1])
    /\ ~FunctionScope(errors[1].sub.scope)
    /\ other_errors = <<errors[1]>>
    /\ Groupable(errors[2])
    /\ Len(origins) = 1

-----------------------------------------------------------------------------
(* C18                                                                       *)

\* cluster k has the scope of the pair and contains its sup-side bound region
Matches(k, e) ==
    /\ same_regions[k].scope_id = node_id(e.sub.scope)
    /\ \E n \in 1..Len(same_regions[k].regions) :
            same_regions[k].regions[n] = e.sup.bound_region

\* the fold of the pair of e: the first cluster that matches gets the
\* sub-side bound region at its end and no other cluster changes; without a
\* match a cluster of the two bound regions is added at the end
FoldRule(e) ==
    IF \E k \in 1..Len(same_regions) : Matches(k, e)
    THEN /\ Len(same_regions') = Len(same_regions)
         /\ \A k \in 1..Len(same_regions) :
                IF Matches(k, e) /\ \A h \in 1..(k - 1) : ~Matches(h, e)
                THEN /\ same_regions'[k].scope_id = same_regions[k].scope_id
                     /\ same_regions'[k].regions =
                            Append(same_regions[k].regions,
                                   e.sub.bound_region)
                ELSE same_regions'[k] = same_regions[k]
    ELSE same_regions' =
            Append(same_regions,
                   SameRegions(node_id(e.sub.scope),
                               <<e.sub.bound_region, e.sup.bound_region>>))

\* C18: for each groupable pair, the sub-side bound region is appended to the
\* first cluster of the pair's scope that contains the sup-side bound region
\* and every other cluster is left unchanged; when there is none, also when a
\* cluster contains the sub-side bound region only, a new cluster
\* {scope, [sub_bound, sup_bound]} is appended at the end of the list.
C18_FoldRule ==
    [][(GrouperStep /\ Groupable(errors[idx])) => FoldRule(errors[idx])]_vars

\* after (a,b), (b,c) and (c,b) of one function: the second pair found its
\* sub side only and started a cluster, the third pair matched both clusters
\* and extended the first
C18_Witness ==
    /\ pc = "process_errors"
    /\ idx = 4
    /\ \A k \in 1..3 : Groupable(errors[k])
    /\ same_regions = <<SameRegions(10, <<"a", "b", "c">>),
                        SameRegions(10, <<"b", "c">>)>>

-----------------------------------------------------------------------------
(* C19                                                                       *)

\* the dispatch loop takes a ProcessedErrors record
ProcessedErrorsStep ==
    /\ pc = "report"
    /\ ridx <= Len(report_errors)
    /\ IsProcessedErrors(report_errors[ridx])
    /\ ridx' = ridx + 1

\* the diagnostic of one entry of origins: the inference-failure diagnostic
\* for VariableFailure, the concrete-failure diagnostic for ConcreteFailure
DiagnosticOfOrigin(o) ==
    IF o.tag = "VariableFailure"
    THEN report_inference_failure(o.var_origin)
    ELSE report_concrete_failure(o.origin, o.sub, o.sup)

DiagnosticsOfOrigins(e) ==
    [k \in 1..Len(e.origins) |-> DiagnosticOfOrigin(e.origins[k])]

\* the loop goes on with the records after the ProcessedErrors record
GoesOn ==
    /\ pc' = "report"
    /\ dispatched' = Append(dispatched, report_errors[ridx])

\* C19 as stated: nothing is emitted for an empty cluster list, and otherwise
\* one diagnostic per entry of origins, in the order of origins.
C19_Original ==
    [][ProcessedErrorsStep =>
        /\ IF report_errors[ridx].same_regions = <<>>
           THEN emitted' = emitted
           ELSE emitted' =
                    emitted \o DiagnosticsOfOrigins(report_errors[ridx])
        /\ GoesOn]_vars

\* C19: a ProcessedErrors record that reaches the dispatch loop has a
\* non-empty cluster list (the only case in which anything is emitted for
\* it); one diagnostic is built per entry of origins, in the order of
\* origins, and each is emitted in that order unless note_type_err cancelled
\* it; the records after it are dispatched.
C19_ProcessedErrorsRendering ==
    [][ProcessedErrorsStep =>
        /\ report_errors[ridx].same_regions # <<>>
        /\ emitted' =
                emitted \o SelectSeq(
                    DiagnosticsOfOrigins(report_errors[ridx]),
                    not_cancelled)
        /\ cancelled' =
                cancelled \o SelectSeq(
                    DiagnosticsOfOrigins(report_errors[ridx]),
                    is_cancelled)
        /\ GoesOn]_vars

\* a grouped record of two origins, the second one cancelled, followed by an
\* ungrouped record that is dispatched after it
C19_Witness ==
    /\ pc = "done"
    /\ Len(dispatched) = 2
    /\ IsProcessedErrors(dispatched[1])
    /\ Len(dispatched[1].origins) = 2
    /\ dispatched[1].origins[1].tag = "VariableFailure"
    /\ dispatched[1].origins[2].tag = "ConcreteFailure"
    /\ dispatched[2].tag = "ConcreteFailure"
    /\ Len(emitted) = 2
    /\ emitted[1].code = "E0495"
    /\ emitted[2].code = "E0312"
    /\ Len(cancelled) = 1

-----------------------------------------------------------------------------
(* C20                                                                       *)

\* the dispatch loop takes a SubSupConflict record
SubSupConflictStep ==
    /\ pc = "report"
    /\ ridx <= Len(report_errors)
    /\ report_errors[ridx].tag = "SubSupConflict"
    /\ ridx' = ridx + 1

BareDiagnostic == struct_span_err(NoSpan, "", "")

\* the note that explains region after prefix
ExplanationOf(prefix, region) ==
    note_and_explain_region(BareDiagnostic, prefix, region, "...").children[1]

\* the provenance note of origin
ProvenanceOf(origin) == note_region_origin(BareDiagnostic, origin).children[1]

\* d is the inference-failure diagnostic of e with its four notes in order
SubSupDiagnostic(d, e) ==
    /\ d.code = "E0495"
    /\ StartsWith(d.msg, "cannot infer an appropriate lifetime")
    /\ ~d.cancelled
    /\ Len(d.children) = 4
    /\ StartsWith(d.children[1].msg, "first, the lifetime cannot outlive ")
    /\ d.children[1] =
            ExplanationOf("first, the lifetime cannot outlive ", e.sup)
    /\ StartsWith(d.children[2].msg, "...so")
    /\ d.children[2] = ProvenanceOf(e.sup_origin)
    /\ StartsWith(d.children[3].msg, "but, the lifetime must be valid for ")
    /\ d.children[3] =
            ExplanationOf("but, the lifetime must be valid for ", e.sub)
    /\ StartsWith(d.children[4].msg, "...so")
    /\ d.children[4] = ProvenanceOf(e.sub_origin)

\* C20: for a SubSupConflict one 'cannot infer an appropriate lifetime'
\* diagnostic is emitted, once, and when it is emitted it carries, in this
\* order, the explanation of sup after 'first, the lifetime cannot outlive ',
\* the provenance note of sup_origin, the explanation of sub after 'but, the
\* lifetime must be valid for ', and the provenance note of sub_origin.
C20_SubSupConflictRendering ==
    [][SubSupConflictStep =>
        /\ Len(emitted') = Len(emitted) + 1
        /\ SubSeq(emitted', 1, Len(emitted)) = emitted
        /\ cancelled' = cancelled
        /\ SubSupDiagnostic(emitted'[Len(emitted')],
                            report_errors[ridx])]_vars

\* a conflict between a scope without span and the static lifetime, with
\* origins of two different variants
C20_Witness ==
    /\ pc = "done"
    /\ Len(dispatched) = 1
    /\ dispatched[1].tag = "SubSupConflict"
    /\ dispatched[1].sub_origin.variant # dispatched[1].sup_origin.variant
    /\ dispatched[1].sub.tag = "ReScope"
    /\ dispatched[1].sup.tag = "ReStatic"
    /\ Len(emitted) = 1
    /\ SubSupDiagnostic(emitted[1], dispatched[1])

-----------------------------------------------------------------------------
(* C21                                                                       *)

\* the dispatch loop takes a GenericBoundFailure record
GenericBoundFailureStep ==
    /\ pc = "report"
    /\ ridx <= Len(report_errors)
    /\ IsGenericBoundFailure(report_errors[ridx])
    /\ ridx' = ridx + 1

\* exactly one diagnostic is emitted by the step, and none is cancelled
EmitsOne ==
    /\ Len(emitted') = Len(emitted) + 1
    /\ SubSeq(emitted', 1, Len(emitted)) = emitted
    /\ cancelled' = cancelled

LastEmitted == emitted'[Len(emitted')]

\* the origin of the bound failure is an impl-vs-trait comparison
FromCompareImpl(e) == e.origin.variant = "CompareImplMethodObligation"

\* C21: a GenericBoundFailure whose origin is CompareImplMethodObligation
\* yields exactly one emitted diagnostic, the one of
\* report_extra_impl_obligation; it is no 'may not live long enough'
\* diagnostic and report_generic_bound_failure attaches nothing to it, neither
\* a region explanation nor a provenance note, whatever the region is.
C21_CompareImplShortCircuit ==
    [][(GenericBoundFailureStep /\ FromCompareImpl(report_errors[ridx])) =>
        /\ EmitsOne
        /\ LastEmitted.code = "extra_impl_obligation"
        /\ ~Mentions(LastEmitted.msg, "may not live long enough")
        /\ LastEmitted.children = <<>>]_vars

\* impl-vs-trait bound failures on a free, the static and a scope region
C21_Witness ==
    /\ pc = "done"
    /\ Len(dispatched) = 2
    /\ \A k \in 1..2 :
            /\ IsGenericBoundFailure(dispatched[k])
            /\ FromCompareImpl(dispatched[k])
            /\ emitted[k].code = "extra_impl_obligation"
    /\ dispatched[1].region.tag = "ReStatic"
    /\ dispatched[2].region.tag = "ReScope"
    /\ Len(emitted) = 2

-----------------------------------------------------------------------------
(* C22                                                                       *)

\* the code by the shape of the region: a Free region with a named bound
\* region, the static region, anything else
CodeByShape(region) ==
    IF /\ region.tag = "ReFree"
       /\ region.bound_region \notin {"BrAnon(0)", "BrFresh", "BrEnv"}
    THEN "E0309"
    ELSE IF region.tag = "ReStatic" THEN "E0310" ELSE "E0311"

\* the notes of a diagnostic, in order (helps and labels are no notes)
NotesOf(d) == SelectSeq(d.children, IsNote)

\* C22: a GenericBoundFailure whose origin is not CompareImplMethodObligation
\* yields exactly one emitted 'may not live long enough' diagnostic with the
\* code of the region's shape; its notes are the region explanation followed
\* by the provenance note of origin when the code is E0311, and the
\* provenance note alone otherwise.
C22_GenericBoundFailureRendering ==
    [][(GenericBoundFailureStep /\ ~FromCompareImpl(report_errors[ridx])) =>
        /\ EmitsOne
        /\ Mentions(LastEmitted.msg, "may not live long enough")
        /\ LastEmitted.code = CodeByShape(report_errors[ridx].region)
        /\ NotesOf(LastEmitted) =
            IF LastEmitted.code = "E0311"
            THEN <<ExplanationOf(
                        SubSeq(LastEmitted.msg, 1,
                               Len(LastEmitted.msg)
                                - Len(" may not live long enough"))
                        \o " must be valid for ",
                        report_errors[ridx].region),
                   ProvenanceOf(report_errors[ridx].origin)>>
            ELSE <<ProvenanceOf(report_errors[ridx].origin)>>]_vars

\* a bound failure on a Free region with an anonymous bound region next to
\* one on a Free region with a named bound region
C22_Witness ==
    /\ pc = "done"
    /\ Len(dispatched) = 2
    /\ IsGenericBoundFailure(dispatched[1])
    /\ dispatched[1].region = ReFree(8, "BrAnon(0)")
    /\ dispatched[2] = GenericBoundFailure(Reborrow, "Param", ReFree(1, "a"))
    /\ Len(emitted) = 2
    /\ emitted[1].code = "E0311"
    /\ Len(NotesOf(emitted[1])) = 2
    /\ emitted[2].code = "E0309"
    /\ Len(NotesOf(emitted[2])) = 1

-----------------------------------------------------------------------------
(* C23                                                                       *)

\* the values of a Subtype origin do not resolve to display strings
Unresolvable(origin) ==
    /\ origin.variant = "Subtype"
    /\ \/ Mentions(origin.trace.values.expected.name, "[type error]")
       \/ Mentions(origin.trace.values.found.name, "[type error]")

\* a record dispatched on its own whose one diagnostic is cancelled
CancelledRecord(e) == e.tag = "ConcreteFailure" /\ Unresolvable(e.origin)

KeptRecord(e) == ~CancelledRecord(e)

\* the diagnostics the dispatch loop emits for one record
OutputOf(e) ==
    IF e.tag = "ConcreteFailure"
    THEN SelectSeq(<<report_concrete_failure(e.origin, e.sub, e.sup)>>,
                   not_cancelled)
    ELSE IF e.tag = "SubSupConflict"
    THEN <<report_sub_sup_conflict(e.var_origin, e.sub_origin, e.sub,
                                   e.sup_origin, e.sup)>>
    ELSE IF e.tag = "GenericBoundFailure"
    THEN <<report_generic_bound_failure(e.origin, e.kind, e.region)>>
    ELSE SelectSeq(DiagnosticsOfOrigins(e), not_cancelled)

RECURSIVE OutputOfList(_)
OutputOfList(list) ==
    IF list = <<>>
    THEN <<>>
    ELSE OutputOf(Head(list)) \o OutputOfList(Tail(list))

\* the diagnostics cancelled so far carry nothing
CancelledAreBare ==
    \A k \in 1..Len(cancelled) :
        /\ cancelled[k].cancelled
        /\ cancelled[k].children = <<>>

\* C23: a diagnostic whose values do not resolve is cancelled with no
\* expected/found line, label or note on it and is never emitted; every
\* record of the iterated list is dispatched, and what is emitted is what the
\* list without the records of the cancelled diagnostics gives.
C23_PerDiagnosticCancellation ==
    /\ CancelledAreBare
    /\ \A k \in 1..Len(emitted) : ~emitted[k].cancelled
    /\ Returned =>
        /\ Len(cancelled) >=
            Len(SelectSeq(dispatched, CancelledRecord))
        /\ emitted = OutputOfList(SelectSeq(dispatched, KeptRecord))
    /\ pc = "done" => dispatched = ListToReport

\* the first record's diagnostic was cancelled, the second record's emitted
C23_Witness ==
    /\ pc = "done"
    /\ Len(dispatched) = 2
    /\ CancelledRecord(dispatched[1])
    /\ KeptRecord(dispatched[2])
    /\ Len(cancelled) = 1
    /\ cancelled[1].children = <<>>
    /\ emitted = OutputOf(dispatched[2])
    /\ Len(emitted) = 1

-----------------------------------------------------------------------------
(* C24                                                                       *)

\* the node kinds the scope explainer has a tag for
ClassifiedKinds ==
    {"NodeBlock", "ExprCall", "ExprMethodCall", "ExprMatchIfLet",
     "ExprMatchWhileLet", "ExprMatchForLoop", "ExprMatch", "ExprOther",
     "NodeStmt"} \cup ItemKinds

\* the scope tree has no span for the scope
SpanNotFound(scope) == scope_span(scope) = NoSpan

\* the span is found, the node is missing or of a kind without a tag
NodeNotClassified(scope) ==
    /\ scope_span(scope) # NoSpan
    /\ hir_find(node_id(scope)) \notin ClassifiedKinds

UnknownScopeText(prefix, scope, suffix) ==
    prefix \o "unknown scope: " \o ToString(scope) \o suffix
    \o ".  Please report a bug."

\* the one note written for a scope that is not fully resolved
DegradedNote(child, prefix, scope, suffix) ==
    /\ SpanNotFound(scope) =>
            child = Child("note", NoSpan,
                          UnknownScopeText(prefix, scope, suffix))
    /\ NodeNotClassified(scope) =>
            child = Child("note", scope_span(scope),
                          UnknownScopeText(prefix, scope, suffix))

\* C24: for a Scope region whose span is not found, note_and_explain_region
\* writes exactly one note without a span carrying the unknown-scope text
\* between the caller's prefix and suffix; for one whose span is found but
\* whose node is missing or of an unclassified kind, exactly one note with
\* that span and the same text; the caller (here the Reborrow arm of
\* report_concrete_failure) goes on, writes its other note and its
\* diagnostic is emitted.
C24_DegradedScopeExplanation ==
    [][(/\ pc = "report"
        /\ ridx <= Len(report_errors)
        /\ ReborrowOfScopes(report_errors[ridx])
        /\ ridx' = ridx + 1)
       => /\ EmitsOne
          /\ ~LastEmitted.cancelled
          /\ LastEmitted.code = "E0312"
          /\ Len(LastEmitted.children) = 2
          /\ DegradedNote(LastEmitted.children[1],
                          "...the reference is valid for ",
                          report_errors[ridx].sub.scope, "...")
          /\ DegradedNote(LastEmitted.children[2],
                          "...but the borrowed content is only valid for ",
                          report_errors[ridx].sup.scope, "")]_vars

\* a diagnostic was emitted whose first note is for a scope without span and
\* whose second is for a scope with a span and a node of unclassified kind,
\* and another whose scope has a span and no node at all
C24_Witness ==
    /\ pc = "done"
    /\ Len(dispatched) = 2
    /\ ReborrowOfScopes(dispatched[1])
    /\ SpanNotFound(dispatched[1].sub.scope)
    /\ NodeNotClassified(dispatched[1].sup.scope)
    /\ ReborrowOfScopes(dispatched[2])
    /\ hir_find(node_id(dispatched[2].sub.scope)) = "None"
    /\ NodeNotClassified(dispatched[2].sub.scope)
    /\ Len(emitted) = 2
    /\ emitted[1].children[1].span = NoSpan
    /\ emitted[1].children[2].span = scope_span(dispatched[1].sup.scope)
    /\ Mentions(emitted[1].children[1].msg, "unknown scope: ")
    /\ Mentions(emitted[1].children[2].msg, "unknown scope: ")
    /\ Mentions(emitted[2].children[1].msg, "unknown scope: ")

-----------------------------------------------------------------------------
(* C25                                                                       *)

\* two groupable records of the input have scopes of different node ids
TwoGroupableScopes(errs) ==
    \E i, j \in 1..Len(errs) :
        /\ Groupable(errs[i])
        /\ Groupable(errs[j])
        /\ node_id(errs[i].sub.scope) # node_id(errs[j].sub.scope)

\* C25: process_errors returns None if and only if the input contains two
\* groupable records whose free-region scopes resolve to different scope
\* node ids; when all groupable records share one scope node id, or there is
\* none, it returns Some.
C25_NoneIffTwoScopes ==
    Returned =>
        /\ result = None <=> TwoGroupableScopes(errors)
        /\ ~TwoGroupableScopes(errors) => result.tag = "Some"

\* None after records of node 10, node 20 and node 10 again, each of which
\* started a cluster
C25_Witness ==
    /\ Returned
    /\ Len(errors) = 3
    /\ \A k \in 1..3 : Groupable(errors[k])
    /\ node_id(errors[1].sub.scope) = 10
    /\ node_id(errors[2].sub.scope) = 20
    /\ node_id(errors[3].sub.scope) = 10
    /\ Len(same_regions) = 3
    /\ result = None

-----------------------------------------------------------------------------
(* C26                                                                       *)

RECURSIVE SumOfLengths(_)
SumOfLengths(clusters) ==
    IF clusters = <<>>
    THEN 0
    ELSE Len(Head(clusters).regions) + SumOfLengths(Tail(clusters))

\* the origin entry recorded for a folded record
OriginEntryOf(e) ==
    IF e.tag = "ConcreteFailure"
    THEN ConcreteFailureOrigin(e.origin, e.sub, e.sup)
    ELSE VariableFailure(e.var_origin)

RECURSIVE OriginEntriesOf(_)
OriginEntriesOf(errs) ==
    IF errs = <<>>
    THEN <<>>
    ELSE IF Groupable(Head(errs))
    THEN <<OriginEntryOf(Head(errs))>> \o OriginEntriesOf(Tail(errs))
    ELSE OriginEntriesOf(Tail(errs))

\* C26: after folding any prefix of the input every cluster holds at least
\* two bound regions, the sum of the cluster lengths is the number of
\* recorded origins plus the number of clusters, and the recorded origins are
\* those of the groupable records of the prefix in input order; a
\* ProcessedErrors record built by process_errors has neither an empty
\* cluster list nor an empty origins list.
C26_AccumulatorInvariant ==
    /\ pc = "process_errors" =>
        /\ \A k \in 1..Len(same_regions) :
                Len(same_regions[k].regions) >= 2
        /\ SumOfLengths(same_regions) = Len(origins) + Len(same_regions)
        /\ origins = OriginEntriesOf(SubSeq(errors, 1, idx - 1))
    /\ (Returned /\ result.tag = "Some") =>
        \A k \in 1..Len(result.value) :
            IsProcessedErrors(result.value[k]) =>
                /\ result.value[k].same_regions # <<>>
                /\ result.value[k].origins # <<>>
                /\ Len(result.value[k].origins) >= Len(result.value[k].same_regions)

\* three records folded into one cluster of four bound regions: a repeated
\* pair adds its sub side once more
C26_Witness ==
    /\ pc = "process_errors"
    /\ idx = 4
    /\ Len(origins) = 3
    /\ Len(same_regions) = 1
    /\ Len(same_regions[1].regions) = 4
    /\ errors[1] = errors[2]

-----------------------------------------------------------------------------
(* C27                                                                       *)

\* the origins of the ProcessedErrors records of a list, one after the other
RECURSIVE OriginsIn(_)
OriginsIn(list) ==
    IF list = <<>>
    THEN <<>>
    ELSE IF IsProcessedErrors(Head(list))
    THEN Head(list).origins \o OriginsIn(Tail(list))
    ELSE OriginsIn(Tail(list))

\* C27: whenever process_errors returns Some(list), every ConcreteFailure and
\* SubSupConflict of the input is represented exactly once in list: the
\* folded ones as the entries of the origins of the ProcessedErrors record,
\* the others as the unchanged records; only GenericBoundFailure records can
\* be absent from list.
C27_Conservation ==
    (Returned /\ result.tag = "Some") =>
        LET list == result.value
        IN  /\ OriginsIn(list) = OriginEntriesOf(errors)
            /\ SelectSeq(list, IsPairRecord) = SelectSeq(errors, IsOther)
            /\ Len(OriginsIn(list)) + Len(SelectSeq(list, IsPairRecord))
                    = Len(SelectSeq(errors, IsPairRecord))
            /\ \A k \in 1..Len(list) :
                    \/ IsProcessedErrors(list[k])
                    \/ IsPairRecord(list[k])
                    \/ /\ IsGenericBoundFailure(list[k])
                       /\ \E n \in 1..Len(errors) : errors[n] = list[k]

\* a folded record, a kept record and a bound failure: the first two are in
\* the list, the bound failure is not
C27_Witness ==
    /\ Returned
    /\ result.tag = "Some"
    /\ Len(errors) = 3
    /\ \E k \in 1..3 : Groupable(errors[k])
    /\ \E k \in 1..3 : IsOther(errors[k])
    /\ \E k \in 1..3 : IsGenericBoundFailure(errors[k])
    /\ Len(result.value) = 2
    /\ Len(result.value[1].origins) = 1
    /\ IsOther(result.value[2])

-----------------------------------------------------------------------------
(* C28                                                                       *)

IsGroupableConflict(e) == e.tag = "SubSupConflict" /\ Groupable(e)

\* d is the inference-failure diagnostic of the variable of e and nothing else
InferenceFailureAlone(d, e) ==
    /\ d.code = "E0495"
    /\ StartsWith(d.msg, "cannot infer an appropriate lifetime")
    /\ d.span = e.var_origin \o ".span"
    /\ ~d.cancelled
    /\ d.children = <<>>

\* C28: a SubSupConflict folded into the ProcessedErrors record is rendered
\* from its VariableFailure origin alone, as one 'cannot infer an appropriate
\* lifetime' diagnostic without any note, whereas the same SubSupConflict
\* dispatched ungrouped (after a None of the grouper) carries two region
\* explanations and two provenance notes.
C28_FoldedConflictRendering ==
    (/\ pc = "done"
     /\ \A k \in 1..Len(errors) : IsGroupableConflict(errors[k]))
    => /\ Len(emitted) = Len(errors)
       /\ cancelled = <<>>
       /\ \A k \in 1..Len(errors) :
            IF result.tag = "Some"
            THEN InferenceFailureAlone(emitted[k], errors[k])
            ELSE SubSupDiagnostic(emitted[k], errors[k])

\* conflicts of one function: folded, and each rendered without a note,
\* while report_sub_sup_conflict gives the first of them four notes
C28_Witness ==
    /\ pc = "done"
    /\ Len(errors) = 2
    /\ \A k \in 1..2 : IsGroupableConflict(errors[k])
    /\ result.tag = "Some"
    /\ Len(dispatched) = 1
    /\ IsProcessedErrors(dispatched[1])
    /\ Len(emitted) = 2
    /\ \A k \in 1..2 : InferenceFailureAlone(emitted[k], errors[k])
    /\ Len(report_sub_sup_conflict(errors[1].var_origin,
                errors[1].sub_origin, errors[1].sub,
                errors[1].sup_origin, errors[1].sup).children) = 4

-----------------------------------------------------------------------------
(* C29                                                                       *)

\* the clusters the loop of process_errors builds from a list of records
RECURSIVE ClustersOf(_)
ClustersOf(errs) ==
    IF errs = <<>>
    THEN <<>>
    ELSE LET e    == errs[Len(errs)]
             rest == ClustersOf(SubSeq(errs, 1, Len(errs) - 1))
         IN  IF Groupable(e)
             THEN append_to_same_regions(rest,
                        free_regions_from_same_fn(e.sub, e.sup).value)
             ELSE rest

\* x is a pair (sub = R1, sup = R2) and y a pair (sub = R2, sup = R3) of the
\* same function scope, with R1, R2, R3 distinct
Chained(x, y) ==
    /\ Groupable(x)
    /\ Groupable(y)
    /\ x.sub.scope = y.sub.scope
    /\ x.sup.bound_region = y.sub.bound_region
    /\ x.sub.bound_region # x.sup.bound_region
    /\ y.sub.bound_region # y.sup.bound_region
    /\ x.sub.bound_region # y.sup.bound_region

\* C29: clustering depends on the order of the input: the clusters built are
\* those of the fold in input order, and for pairs (sub = R1, sup = R2) and
\* (sub = R2, sup = R3) of one function scope the order (R1,R2), (R2,R3)
\* builds two clusters while the order (R2,R3), (R1,R2) builds one, because a
\* pair is merged only into a cluster that contains its sup-side region.
C29_OrderDependence ==
    Returned =>
        /\ same_regions = ClustersOf(errors)
        /\ (Len(errors) = 2 /\ Chained(errors[1], errors[2])) =>
                /\ Len(same_regions) = 2
                /\ Len(ClustersOf(<<errors[2], errors[1]>>)) = 1
        /\ (Len(errors) = 2 /\ Chained(errors[2], errors[1])) =>
                /\ Len(same_regions) = 1
                /\ Len(ClustersOf(<<errors[2], errors[1]>>)) = 2

\* the order (R1,R2), (R2,R3) has built two clusters where the other order
\* of the same two records builds one
C29_Witness ==
    /\ Returned
    /\ Len(errors) = 2
    /\ Chained(errors[1], errors[2])
    /\ Len(same_regions) = 2
    /\ same_regions[1].regions =
            <<errors[1].sub.bound_region, errors[1].sup.bound_region>>
    /\ same_regions[2].regions =
            <<errors[2].sub.bound_region, errors[2].sup.bound_region>>
    /\ Len(ClustersOf(<<errors[2], errors[1]>>)) = 1

-----------------------------------------------------------------------------
(* C30                                                                       *)

\* C30: when process_errors returns None, report_region_errors dispatches
\* every GenericBoundFailure of the raw input and emits one diagnostic for
\* each, whereas after a Some with a cluster or an 'other' record no
\* GenericBoundFailure is dispatched: the suppression of the deferred bound
\* failures is not applied on the fallback path.
C30_FallbackReportsBoundFailures ==
    pc = "done" =>
        /\ result = None =>
            /\ TwoClusterScopes
            /\ SelectSeq(dispatched, IsGenericBoundFailure)
                    = SelectSeq(errors, IsGenericBoundFailure)
            /\ emitted = OutputOfList(errors)
            /\ \A k \in 1..Len(errors) :
                    IsGenericBoundFailure(errors[k]) =>
                        Len(OutputOf(errors[k])) = 1
        /\ (/\ result.tag = "Some"
            /\ same_regions # <<>> \/ other_errors # <<>>) =>
                SelectSeq(dispatched, IsGenericBoundFailure) = <<>>

\* a bound failure between two groupable records of different functions: the
\* grouper gave None and the bound failure's diagnostic is the second one
\* emitted
C30_Witness ==
    /\ pc = "done"
    /\ result = None
    /\ Len(errors) = 3
    /\ Groupable(errors[1])
    /\ IsGenericBoundFailure(errors[2])
    /\ Groupable(errors[3])
    /\ Len(emitted) = 3
    /\ <<emitted[2]>> = OutputOf(errors[2])
    /\ StartsWith(emitted[2].code, "E03")

====
